---- MODULE Spec2Model ----
(***************************************************************************)
(* Model of the document-processing pipeline of AIKnowledgeBase:           *)
(*   app/services/pdf_service.py        text extraction and its job        *)
(*   app/services/chunking_service.py   text cleaning, chunking, its job   *)
(*   app/services/embedding_service.py  batch embedding, vector storage    *)
(*   app/services/vector_service.py     the vector index                   *)
(*   app/services/document_processor.py process / reprocess / bulk_process *)
(*   app/models/document.py             the rows and their constraints     *)
(*   app/api/api_v1/endpoints/documents.py  the endpoints                  *)
(*   start.py                           the server that runs them          *)
(*                                                                         *)
(* Text is a sequence of one-character strings.  The relational store is   *)
(* the committed state; one action is the code between two commits,        *)
(* together with the commit that ends it.                                  *)
(***************************************************************************)
EXTENDS Integers, Sequences, FiniteSets, TLC

(***************************************************************************)
(* Bounds of the model.                                                    *)
(***************************************************************************)
\* calls of process, reprocess and bulk_process that one behaviour may make
MaxCalls == 3
\* failures of the environment (an unreadable file, a failing provider or
\* vector index call) that one behaviour may contain
MaxFaults == 1
\* ChunkingService.chunk_size and chunk_overlap as configured for the model:
\* the constructor takes them as parameters (chunking_service.py:12-14); the
\* settings' 1000 and 200 are scaled down so that short texts overflow
chunk_size == 4
chunk_overlap == 2

(***************************************************************************)
(* Program constants.                                                      *)
(***************************************************************************)
\* embedding_service.py:84
batch_size == 10

(***************************************************************************)
(* Text helpers (Python str / re semantics on sequences of characters).    *)
(***************************************************************************)
\* A character is a string: itself when a TLA+ string can hold it, else its
\* code point, as in "U+00A0".
\* the characters that the regex class \s of a str pattern matches and that
\* str.strip() and str.split() treat as whitespace, other than the five
\* written as themselves below
UnicodeWhitespace ==
    {
     "U+000B", "U+001C", "U+001D", "U+001E", "U+001F", "U+0085", "U+00A0", "U+1680",
     "U+2000", "U+2001", "U+2002", "U+2003", "U+2004", "U+2005", "U+2006", "U+2007",
     "U+2008", "U+2009", "U+200A", "U+2028", "U+2029", "U+202F", "U+205F", "U+3000"
    }
\* characters matched by the regex class \s and removed by str.strip()
Whitespace == {" ", "\n", "\t", "\r", "\f"} \cup UnicodeWhitespace
\* the regex class [.!?] of split_text_by_sentences
Terminators == {".", "!", "?"}
\* the decimal digits of Unicode other than 0-9 (category Nd)
UnicodeDigits ==
    {
     "U+0660", "U+0661", "U+0662", "U+0663", "U+0664", "U+0665", "U+0666", "U+0667", "U+0668", "U+0669",
     "U+06F0", "U+06F1", "U+06F2", "U+06F3", "U+06F4", "U+06F5", "U+06F6", "U+06F7", "U+06F8", "U+06F9",
     "U+07C0", "U+07C1", "U+07C2", "U+07C3", "U+07C4", "U+07C5", "U+07C6", "U+07C7", "U+07C8", "U+07C9",
     "U+0966", "U+0967", "U+0968", "U+0969", "U+096A", "U+096B", "U+096C", "U+096D", "U+096E", "U+096F",
     "U+09E6", "U+09E7", "U+09E8", "U+09E9", "U+09EA", "U+09EB", "U+09EC", "U+09ED", "U+09EE", "U+09EF",
     "U+0A66", "U+0A67", "U+0A68", "U+0A69", "U+0A6A", "U+0A6B", "U+0A6C", "U+0A6D", "U+0A6E", "U+0A6F",
     "U+0AE6", "U+0AE7", "U+0AE8", "U+0AE9", "U+0AEA", "U+0AEB", "U+0AEC", "U+0AED", "U+0AEE", "U+0AEF",
     "U+0B66", "U+0B67", "U+0B68", "U+0B69", "U+0B6A", "U+0B6B", "U+0B6C", "U+0B6D", "U+0B6E", "U+0B6F",
     "U+0BE6", "U+0BE7", "U+0BE8", "U+0BE9", "U+0BEA", "U+0BEB", "U+0BEC", "U+0BED", "U+0BEE", "U+0BEF",
     "U+0C66", "U+0C67", "U+0C68", "U+0C69", "U+0C6A", "U+0C6B", "U+0C6C", "U+0C6D", "U+0C6E", "U+0C6F",
     "U+0CE6", "U+0CE7", "U+0CE8", "U+0CE9", "U+0CEA", "U+0CEB", "U+0CEC", "U+0CED", "U+0CEE", "U+0CEF",
     "U+0D66", "U+0D67", "U+0D68", "U+0D69", "U+0D6A", "U+0D6B", "U+0D6C", "U+0D6D", "U+0D6E", "U+0D6F",
     "U+0DE6", "U+0DE7", "U+0DE8", "U+0DE9", "U+0DEA", "U+0DEB", "U+0DEC", "U+0DED", "U+0DEE", "U+0DEF",
     "U+0E50", "U+0E51", "U+0E52", "U+0E53", "U+0E54", "U+0E55", "U+0E56", "U+0E57", "U+0E58", "U+0E59",
     "U+0ED0", "U+0ED1", "U+0ED2", "U+0ED3", "U+0ED4", "U+0ED5", "U+0ED6", "U+0ED7", "U+0ED8", "U+0ED9",
     "U+0F20", "U+0F21", "U+0F22", "U+0F23", "U+0F24", "U+0F25", "U+0F26", "U+0F27", "U+0F28", "U+0F29",
     "U+1040", "U+1041", "U+1042", "U+1043", "U+1044", "U+1045", "U+1046", "U+1047", "U+1048", "U+1049",
     "U+1090", "U+1091", "U+1092", "U+1093", "U+1094", "U+1095", "U+1096", "U+1097", "U+1098", "U+1099",
     "U+17E0", "U+17E1", "U+17E2", "U+17E3", "U+17E4", "U+17E5", "U+17E6", "U+17E7", "U+17E8", "U+17E9",
     "U+1810", "U+1811", "U+1812", "U+1813", "U+1814", "U+1815", "U+1816", "U+1817", "U+1818", "U+1819",
     "U+1946", "U+1947", "U+1948", "U+1949", "U+194A", "U+194B", "U+194C", "U+194D", "U+194E", "U+194F",
     "U+19D0", "U+19D1", "U+19D2", "U+19D3", "U+19D4", "U+19D5", "U+19D6", "U+19D7", "U+19D8", "U+19D9",
     "U+1A80", "U+1A81", "U+1A82", "U+1A83", "U+1A84", "U+1A85", "U+1A86", "U+1A87", "U+1A88", "U+1A89",
     "U+1A90", "U+1A91", "U+1A92", "U+1A93", "U+1A94", "U+1A95", "U+1A96", "U+1A97", "U+1A98", "U+1A99",
     "U+1B50", "U+1B51", "U+1B52", "U+1B53", "U+1B54", "U+1B55", "U+1B56", "U+1B57", "U+1B58", "U+1B59",
     "U+1BB0", "U+1BB1", "U+1BB2", "U+1BB3", "U+1BB4", "U+1BB5", "U+1BB6", "U+1BB7", "U+1BB8", "U+1BB9",
     "U+1C40", "U+1C41", "U+1C42", "U+1C43", "U+1C44", "U+1C45", "U+1C46", "U+1C47", "U+1C48", "U+1C49",
     "U+1C50", "U+1C51", "U+1C52", "U+1C53", "U+1C54", "U+1C55", "U+1C56", "U+1C57", "U+1C58", "U+1C59",
     "U+A620", "U+A621", "U+A622", "U+A623", "U+A624", "U+A625", "U+A626", "U+A627", "U+A628", "U+A629",
     "U+A8D0", "U+A8D1", "U+A8D2", "U+A8D3", "U+A8D4", "U+A8D5", "U+A8D6", "U+A8D7", "U+A8D8", "U+A8D9",
     "U+A900", "U+A901", "U+A902", "U+A903", "U+A904", "U+A905", "U+A906", "U+A907", "U+A908", "U+A909",
     "U+A9D0", "U+A9D1", "U+A9D2", "U+A9D3", "U+A9D4", "U+A9D5", "U+A9D6", "U+A9D7", "U+A9D8", "U+A9D9",
     "U+A9F0", "U+A9F1", "U+A9F2", "U+A9F3", "U+A9F4", "U+A9F5", "U+A9F6", "U+A9F7", "U+A9F8", "U+A9F9",
     "U+AA50", "U+AA51", "U+AA52", "U+AA53", "U+AA54", "U+AA55", "U+AA56", "U+AA57", "U+AA58", "U+AA59",
     "U+ABF0", "U+ABF1", "U+ABF2", "U+ABF3", "U+ABF4", "U+ABF5", "U+ABF6", "U+ABF7", "U+ABF8", "U+ABF9",
     "U+FF10", "U+FF11", "U+FF12", "U+FF13", "U+FF14", "U+FF15", "U+FF16", "U+FF17", "U+FF18", "U+FF19",
     "U+104A0", "U+104A1", "U+104A2", "U+104A3", "U+104A4", "U+104A5", "U+104A6", "U+104A7", "U+104A8", "U+104A9",
     "U+10D30", "U+10D31", "U+10D32", "U+10D33", "U+10D34", "U+10D35", "U+10D36", "U+10D37", "U+10D38", "U+10D39",
     "U+11066", "U+11067", "U+11068", "U+11069", "U+1106A", "U+1106B", "U+1106C", "U+1106D", "U+1106E", "U+1106F",
     "U+110F0", "U+110F1", "U+110F2", "U+110F3", "U+110F4", "U+110F5", "U+110F6", "U+110F7", "U+110F8", "U+110F9",
     "U+11136", "U+11137", "U+11138", "U+11139", "U+1113A", "U+1113B", "U+1113C", "U+1113D", "U+1113E", "U+1113F",
     "U+111D0", "U+111D1", "U+111D2", "U+111D3", "U+111D4", "U+111D5", "U+111D6", "U+111D7", "U+111D8", "U+111D9",
     "U+112F0", "U+112F1", "U+112F2", "U+112F3", "U+112F4", "U+112F5", "U+112F6", "U+112F7", "U+112F8", "U+112F9",
     "U+11450", "U+11451", "U+11452", "U+11453", "U+11454", "U+11455", "U+11456", "U+11457", "U+11458", "U+11459",
     "U+114D0", "U+114D1", "U+114D2", "U+114D3", "U+114D4", "U+114D5", "U+114D6", "U+114D7", "U+114D8", "U+114D9",
     "U+11650", "U+11651", "U+11652", "U+11653", "U+11654", "U+11655", "U+11656", "U+11657", "U+11658", "U+11659",
     "U+116C0", "U+116C1", "U+116C2", "U+116C3", "U+116C4", "U+116C5", "U+116C6", "U+116C7", "U+116C8", "U+116C9",
     "U+11730", "U+11731", "U+11732", "U+11733", "U+11734", "U+11735", "U+11736", "U+11737", "U+11738", "U+11739",
     "U+118E0", "U+118E1", "U+118E2", "U+118E3", "U+118E4", "U+118E5", "U+118E6", "U+118E7", "U+118E8", "U+118E9",
     "U+11950", "U+11951", "U+11952", "U+11953", "U+11954", "U+11955", "U+11956", "U+11957", "U+11958", "U+11959",
     "U+11C50", "U+11C51", "U+11C52", "U+11C53", "U+11C54", "U+11C55", "U+11C56", "U+11C57", "U+11C58", "U+11C59",
     "U+11D50", "U+11D51", "U+11D52", "U+11D53", "U+11D54", "U+11D55", "U+11D56", "U+11D57", "U+11D58", "U+11D59",
     "U+11DA0", "U+11DA1", "U+11DA2", "U+11DA3", "U+11DA4", "U+11DA5", "U+11DA6", "U+11DA7", "U+11DA8", "U+11DA9",
     "U+16A60", "U+16A61", "U+16A62", "U+16A63", "U+16A64", "U+16A65", "U+16A66", "U+16A67", "U+16A68", "U+16A69",
     "U+16AC0", "U+16AC1", "U+16AC2", "U+16AC3", "U+16AC4", "U+16AC5", "U+16AC6", "U+16AC7", "U+16AC8", "U+16AC9",
     "U+16B50", "U+16B51", "U+16B52", "U+16B53", "U+16B54", "U+16B55", "U+16B56", "U+16B57", "U+16B58", "U+16B59",
     "U+1D7CE", "U+1D7CF", "U+1D7D0", "U+1D7D1", "U+1D7D2", "U+1D7D3", "U+1D7D4", "U+1D7D5", "U+1D7D6", "U+1D7D7",
     "U+1D7D8", "U+1D7D9", "U+1D7DA", "U+1D7DB", "U+1D7DC", "U+1D7DD", "U+1D7DE", "U+1D7DF", "U+1D7E0", "U+1D7E1",
     "U+1D7E2", "U+1D7E3", "U+1D7E4", "U+1D7E5", "U+1D7E6", "U+1D7E7", "U+1D7E8", "U+1D7E9", "U+1D7EA", "U+1D7EB",
     "U+1D7EC", "U+1D7ED", "U+1D7EE", "U+1D7EF", "U+1D7F0", "U+1D7F1", "U+1D7F2", "U+1D7F3", "U+1D7F4", "U+1D7F5",
     "U+1D7F6", "U+1D7F7", "U+1D7F8", "U+1D7F9", "U+1D7FA", "U+1D7FB", "U+1D7FC", "U+1D7FD", "U+1D7FE", "U+1D7FF",
     "U+1E140", "U+1E141", "U+1E142", "U+1E143", "U+1E144", "U+1E145", "U+1E146", "U+1E147", "U+1E148", "U+1E149",
     "U+1E2F0", "U+1E2F1", "U+1E2F2", "U+1E2F3", "U+1E2F4", "U+1E2F5", "U+1E2F6", "U+1E2F7", "U+1E2F8", "U+1E2F9",
     "U+1E950", "U+1E951", "U+1E952", "U+1E953", "U+1E954", "U+1E955", "U+1E956", "U+1E957", "U+1E958", "U+1E959",
     "U+1FBF0", "U+1FBF1", "U+1FBF2", "U+1FBF3", "U+1FBF4", "U+1FBF5", "U+1FBF6", "U+1FBF7", "U+1FBF8", "U+1FBF9"
    }
\* the regex class \d of a str pattern
Digits == {"0", "1", "2", "3", "4", "5", "6", "7", "8", "9"} \cup UnicodeDigits

Min(a, b) == IF a <= b THEN a ELSE b

\* s[i:] of Python (0-based i), for 0 <= i
DropN(s, n) == IF n >= Len(s) THEN <<>> ELSE SubSeq(s, n + 1, Len(s))
\* s[:i] of Python
TakeN(s, n) == IF n <= 0 THEN <<>> ELSE SubSeq(s, 1, Min(n, Len(s)))

\* s.startswith(p)
StartsWith(s, p) == Len(s) >= Len(p) /\ SubSeq(s, 1, Len(p)) = p

\* number of leading characters of s that belong to class
RECURSIVE SpanLen(_, _)
SpanLen(s, class) ==
    IF s = <<>> \/ Head(s) \notin class THEN 0
    ELSE 1 + SpanLen(Tail(s), class)

\* str.lstrip(), str.rstrip(), str.strip()
LStrip(s) == DropN(s, SpanLen(s, Whitespace))
RECURSIVE RStrip(_)
RStrip(s) ==
    IF s = <<>> \/ s[Len(s)] \notin Whitespace THEN s
    ELSE RStrip(SubSeq(s, 1, Len(s) - 1))
Strip(s) == RStrip(LStrip(s))

\* sep.join(parts)
RECURSIVE Join(_, _)
Join(sep, parts) ==
    IF parts = <<>> THEN <<>>
    ELSE IF Len(parts) = 1 THEN parts[1]
    ELSE parts[1] \o sep \o Join(sep, Tail(parts))

\* number of leading characters of s that do not belong to class
RECURSIVE SpanLenNot(_, _)
SpanLenNot(s, class) ==
    IF s = <<>> \/ Head(s) \in class THEN 0
    ELSE 1 + SpanLenNot(Tail(s), class)

\* len(s.split()): the number of maximal runs of non-whitespace characters
RECURSIVE WordCount(_)
WordCount(s) ==
    IF s = <<>> THEN 0
    ELSE IF Head(s) \in Whitespace THEN WordCount(Tail(s))
    ELSE 1 + WordCount(DropN(s, SpanLenNot(s, Whitespace)))

\* str(n) for n >= 0
DigitOf(k) == CASE k = 0 -> "0" [] k = 1 -> "1" [] k = 2 -> "2" [] k = 3 -> "3"
                [] k = 4 -> "4" [] k = 5 -> "5" [] k = 6 -> "6" [] k = 7 -> "7"
                [] k = 8 -> "8" [] k = 9 -> "9"
RECURSIVE IntToStr(_)
IntToStr(n) ==
    IF n < 10 THEN <<DigitOf(n)>>
    ELSE IntToStr(n \div 10) \o <<DigitOf(n % 10)>>

(***************************************************************************)
(* PDFService.extract_text: a file is unreadable, or a sequence of page    *)
(* texts.                                                                  *)
(***************************************************************************)
\* f"\n--- Page {page_num + 1} ---\n"
PageMarker(n) ==
    <<"\n", "-", "-", "-", " ", "P", "a", "g", "e", " ">> \o IntToStr(n)
        \o <<" ", "-", "-", "-", "\n">>

\* the loop over the pages: a page with text adds its marker and its text
RECURSIVE ExtractPages(_, _)
ExtractPages(pages, n) ==
    IF n > Len(pages) THEN <<>>
    ELSE (IF pages[n] # <<>> THEN PageMarker(n) \o pages[n] ELSE <<>>)
             \o ExtractPages(pages, n + 1)

\* text_content of extract_text_pdfplumber for a readable file
extract_text(pages) == ExtractPages(pages, 1)

(***************************************************************************)
(* ChunkingService.clean_text                                              *)
(***************************************************************************)
\* re.sub(r'\s+', ' ', text)
RECURSIVE CollapseWhitespace(_)
CollapseWhitespace(s) ==
    IF s = <<>> THEN <<>>
    ELSE IF Head(s) \in Whitespace
         THEN <<" ">> \o CollapseWhitespace(DropN(s, SpanLen(s, Whitespace)))
         ELSE <<Head(s)>> \o CollapseWhitespace(Tail(s))

\* length of a match of r'\n--- Page \d+ ---\n' at the start of s, 0 if none
MarkerMatchLen(s) ==
    LET pre == <<"\n", "-", "-", "-", " ", "P", "a", "g", "e", " ">>
        post == <<" ", "-", "-", "-", "\n">>
    IN  IF ~StartsWith(s, pre) THEN 0
        ELSE LET rest == DropN(s, Len(pre))
                 nd == SpanLen(rest, Digits)
             IN  IF nd >= 1 /\ StartsWith(DropN(rest, nd), post)
                 THEN Len(pre) + nd + Len(post)
                 ELSE 0

\* re.sub(r'\n--- Page \d+ ---\n', '\n', text)
RECURSIVE RemovePageMarkers(_)
RemovePageMarkers(s) ==
    IF s = <<>> THEN <<>>
    ELSE IF MarkerMatchLen(s) > 0
         THEN <<"\n">> \o RemovePageMarkers(DropN(s, MarkerMatchLen(s)))
         ELSE <<Head(s)>> \o RemovePageMarkers(Tail(s))

clean_text(text) == Strip(RemovePageMarkers(CollapseWhitespace(text)))

(***************************************************************************)
(* ChunkingService.split_text_by_sentences                                 *)
(***************************************************************************)
\* re.split(r'(?<=[.!?])\s+', text): the pieces between the matches; a match
\* is a maximal whitespace run that directly follows a terminator
RECURSIVE RegexSplit(_, _, _)
RegexSplit(s, i, piece) ==
    IF i > Len(s) THEN <<piece>>
    ELSE IF s[i] \in Whitespace /\ i > 1 /\ s[i - 1] \in Terminators
         THEN <<piece>> \o RegexSplit(s, i + SpanLen(DropN(s, i - 1), Whitespace), <<>>)
         ELSE RegexSplit(s, i + 1, Append(piece, s[i]))

\* [s.strip() for s in sentences if s.strip()]
RECURSIVE StripNonEmpty(_)
StripNonEmpty(parts) ==
    IF parts = <<>> THEN <<>>
    ELSE (IF Strip(Head(parts)) # <<>> THEN <<Strip(Head(parts))>> ELSE <<>>)
             \o StripNonEmpty(Tail(parts))

split_text_by_sentences(text) == StripNonEmpty(RegexSplit(text, 1, <<>>))

(***************************************************************************)
(* ChunkingService.create_chunks_sliding_window                            *)
(***************************************************************************)
\* one entry of the list the chunkers return
ChunkData(index, current_chunk, count) ==
    [index |-> index,
     content |-> Strip(current_chunk),
     character_count |-> Len(current_chunk),
     word_count |-> WordCount(current_chunk),
     sentence_count |-> count]

\* the backward walk of lines 72-78: the longest suffix of the sentences,
\* taken from the last one, whose lengths sum to at most the overlap
RECURSIVE OverlapWalk(_, _, _, _, _)
OverlapWalk(sents, j, overlap, overlap_chars, overlap_sentences) ==
    IF j < 1 THEN overlap_sentences
    ELSE IF overlap_chars + Len(sents[j]) <= overlap
         THEN OverlapWalk(sents, j - 1, overlap, overlap_chars + Len(sents[j]),
                          <<sents[j]>> \o overlap_sentences)
         ELSE overlap_sentences

\* the sentences a new chunk starts with (lines 66-84)
OverlapSentences(current_chunk_sentences, overlap) ==
    IF overlap > 0 /\ Len(current_chunk_sentences) > 1
    THEN OverlapWalk(current_chunk_sentences, Len(current_chunk_sentences),
                     overlap, 0, <<>>)
    ELSE <<>>

\* the loop of lines 47-88 from sentence i on; st is the loop's state
RECURSIVE SlidingLoop(_, _, _, _, _)
SlidingLoop(sentences, i, size, overlap, st) ==
    IF i > Len(sentences) THEN st
    ELSE
      LET sentence == sentences[i]
          test_chunk == IF st.current_chunk # <<>>
                        THEN st.current_chunk \o <<" ">> \o sentence
                        ELSE sentence
      IN  IF Len(test_chunk) <= size
          THEN SlidingLoop(sentences, i + 1, size, overlap,
                 [st EXCEPT !.current_chunk = test_chunk,
                            !.current_chunk_sentences = Append(@, sentence)])
          ELSE
            LET emitted == IF st.current_chunk # <<>>
                           THEN Append(st.chunks,
                                  ChunkData(st.chunk_index, st.current_chunk,
                                            Len(st.current_chunk_sentences)))
                           ELSE st.chunks
                index == IF st.current_chunk # <<>>
                         THEN st.chunk_index + 1 ELSE st.chunk_index
                kept == OverlapSentences(st.current_chunk_sentences, overlap)
                seed == Join(<<" ">>, kept)
            IN  SlidingLoop(sentences, i + 1, size, overlap,
                  [chunks |-> emitted,
                   chunk_index |-> index,
                   current_chunk |-> IF seed # <<>>
                                     THEN seed \o <<" ">> \o sentence
                                     ELSE sentence,
                   current_chunk_sentences |-> Append(kept, sentence)])

\* a variant without lines 90-98: the chunk being built when the sentences
\* run out is not added
create_chunks_sliding_window_no_tail(text, size, overlap) ==
    LET sentences == split_text_by_sentences(text)
        st == SlidingLoop(sentences, 1, size, overlap,
                [chunks |-> <<>>, chunk_index |-> 0,
                 current_chunk |-> <<>>, current_chunk_sentences |-> <<>>])
    IN  IF sentences = <<>> THEN <<>> ELSE st.chunks

create_chunks_sliding_window(text, size, overlap) ==
    LET sentences == split_text_by_sentences(text)
        st == SlidingLoop(sentences, 1, size, overlap,
                [chunks |-> <<>>, chunk_index |-> 0,
                 current_chunk |-> <<>>, current_chunk_sentences |-> <<>>])
    IN  IF sentences = <<>> THEN <<>>
        ELSE IF st.current_chunk # <<>>
             THEN Append(st.chunks,
                    ChunkData(st.chunk_index, st.current_chunk,
                              Len(st.current_chunk_sentences)))
             ELSE st.chunks

(***************************************************************************)
(* ChunkingService.create_chunks_paragraph_based                           *)
(***************************************************************************)
\* text.split(sep) for a non-empty separator
RECURSIVE SplitOn(_, _, _)
SplitOn(s, sep, piece) ==
    IF s = <<>> THEN <<piece>>
    ELSE IF StartsWith(s, sep)
         THEN <<piece>> \o SplitOn(DropN(s, Len(sep)), sep, <<>>)
         ELSE SplitOn(Tail(s), sep, Append(piece, Head(s)))

\* number of non-overlapping occurrences: str.count(sep)
Count(s, sep) == Len(SplitOn(s, sep, <<>>)) - 1

\* one entry of the list the paragraph chunker returns
ParagraphChunkData(index, current_chunk) ==
    [index |-> index,
     content |-> Strip(current_chunk),
     character_count |-> Len(current_chunk),
     word_count |-> WordCount(current_chunk),
     paragraph_count |-> Count(current_chunk, <<"\n", "\n">>) + 1]

\* the loop of lines 110-128 from paragraph i on
RECURSIVE ParagraphLoop(_, _, _, _)
ParagraphLoop(paragraphs, i, size, st) ==
    IF i > Len(paragraphs) THEN st
    ELSE
      LET paragraph == paragraphs[i]
          test_chunk == IF st.current_chunk # <<>>
                        THEN st.current_chunk \o <<"\n", "\n">> \o paragraph
                        ELSE paragraph
      IN  IF Len(test_chunk) <= size
          THEN ParagraphLoop(paragraphs, i + 1, size,
                             [st EXCEPT !.current_chunk = test_chunk])
          ELSE ParagraphLoop(paragraphs, i + 1, size,
                 [chunks |-> IF st.current_chunk # <<>>
                             THEN Append(st.chunks,
                                    ParagraphChunkData(st.chunk_index, st.current_chunk))
                             ELSE st.chunks,
                  chunk_index |-> IF st.current_chunk # <<>>
                                  THEN st.chunk_index + 1 ELSE st.chunk_index,
                  current_chunk |-> paragraph])

create_chunks_paragraph_based(text, size) ==
    LET paragraphs == StripNonEmpty(SplitOn(text, <<"\n", "\n">>, <<>>))
        st == ParagraphLoop(paragraphs, 1, size,
                [chunks |-> <<>>, chunk_index |-> 0, current_chunk |-> <<>>])
    IN  IF st.current_chunk # <<>>
        THEN Append(st.chunks, ParagraphChunkData(st.chunk_index, st.current_chunk))
        ELSE st.chunks

(***************************************************************************)
(* The store, the vector index and the requests.                           *)
(***************************************************************************)
Users == {"u1", "u2"}
Docs == {"d1", "d2", "d3"}
\* Document.user_id
user_id(d) == IF d = "d3" THEN "u2" ELSE "u1"

\* the request slots: requests are served one at a time
Slots == {1}

\* chunking_method values a caller of process passes; the last is no known
\* method
Methods == {"sliding_window", "semantic"}

\* the uploaded files, as the page texts a PDF library reads from them
FileBlank == << <<>> >>
FileShort == << <<"A", "a", ".">> >>
FileLong ==
    << <<"A", ".", " ", "B", ".", " ", "C", ".", " ", "D", ".", " ", "E", ".",
         " ", "F", ".", " ", "G", ".", " ", "H", ".", " ", "I", ".", " ", "J",
         ".", " ", "K", ".">> >>
Files == {FileBlank, FileShort, FileLong}

\* a NULL column
NULL == <<>>

\* no file is stored at Document.file_path
NoFile == <<>>

VARIABLES
    files,      \* Docs -> the file stored at Document.file_path
    status,     \* Docs -> committed Document.processing_status
    chunks,     \* committed document_chunks rows
    jobs,       \* committed processing_jobs rows, in order of creation
    vindex,     \* entries of the vector collection, keyed by chunk_id
    runs,       \* pipeline runs started so far
    calls,      \* calls made so far
    nfaults,    \* failures of the file system and the providers so far
    call,       \* Slots -> the request being served and its local variables
    client,     \* the "document_chunks" collection the Chroma client holds
    handles     \* Holders -> the collection self.collection refers to

VARIABLES
    sessions,   \* committed chat_sessions rows
    messages,   \* committed chat_messages rows, in order of creation
    ask,        \* the answer_question call being served and its local variables
    chk         \* a ChunkingService instance, the text given to it and its chunks

vars == <<files, status, chunks, jobs, vindex, runs, calls, nfaults, call,
          client, handles, sessions, messages, ask, chk>>

\* the variables of the chat store and of a chunker used on its own
chat_vars == <<sessions, messages, ask, chk>>

\* the collection and the VectorService objects that refer to it
handle_vars == <<client, handles>>

\* results of process_document_full_pipeline (document_processor.py:26-33)
InitResults ==
    [text_extraction |-> FALSE, chunking |-> FALSE,
     embedding_generation |-> FALSE, total_chunks |-> 0, errors |-> <<>>]

IdleCall ==
    [op |-> "none", pc |-> "idle", doc |-> "d1", user |-> "u1",
     method |-> "sliding_window", run |-> 0,
     needs_rollback |-> FALSE, exc |-> "",
     results |-> InitResults, outcome |-> "none",
     job |-> 0, made |-> 0, loaded |-> <<>>, i |-> 0, all_embeddings |-> 0,
     queue |-> <<>>, selected |-> {}, summary |-> [total_documents |-> 0, processed |-> 0,
                                failed |-> 0, details |-> <<>>],
     bulk_outcome |-> "none",
     hist |-> <<>>, faults |-> FALSE, seen |-> "", loaded_status |-> "",
     existing |-> {}, holder |-> "processor",
     stage_vindex |-> {}, stage_chunks |-> {}, ran |-> {}, bulk_pre |-> <<>>,
     processed |-> FALSE, prev |-> <<>>]

\* no answer_question call is being served
IdleAsk ==
    [pc |-> "idle", user |-> "u1", question |-> "q1", session_id |-> 0,
     document_filter |-> {}, session |-> 0, created |-> FALSE,
     searched |-> FALSE, searched_filter |-> {}, searched_user |-> "",
     relevant_chunks |-> <<>>, answer |-> "", sources |-> <<>>,
     token_usage |-> "None", response_time_ms |-> 0, model_used |-> "None",
     embed_calls |-> 0, index_calls |-> 0, model_calls |-> 0,
     exc |-> "", outcome |-> "none",
     pre |-> [sessions |-> {}, messages |-> <<>>]]

\* no chunker has been constructed
IdleChunker ==
    [pc |-> "idle", text |-> <<>>, size_arg |-> 0, overlap_arg |-> 0,
     chunk_size |-> 0, chunk_overlap |-> 0, method |-> "", out |-> <<>>]

\* the outcomes of a call to the environment: TRUE is success
Outcomes == IF nfaults < MaxFaults THEN BOOLEAN ELSE {TRUE}
Count1(ok) == nfaults' = IF ok THEN nfaults ELSE nfaults + 1

\* the outcomes of db.commit() followed by db.refresh(): both succeed, the
\* commit fails and nothing is stored, or the refresh fails after the
\* commit has stored
DbOutcomes ==
    IF nfaults < MaxFaults THEN {"ok", "commit failed", "refresh failed"}
    ELSE {"ok"}
CountDb(o) == nfaults' = IF o = "ok" THEN nfaults ELSE nfaults + 1

\* the outcomes of opening the file of document d (pdf_service.py:60-61):
\* a file that is not there cannot be read, and that is no failure of the
\* environment
FileOutcomes(d) == IF files[d] = NoFile THEN {FALSE} ELSE Outcomes
CountRead(d, readable) ==
    nfaults' = IF readable \/ files[d] = NoFile THEN nfaults ELSE nfaults + 1

\* the VectorService objects of the process: that of the DocumentProcessor
\* of documents.py:16 (document_processor.py:17), that of the RAGService of
\* chat.py:17 (rag_service.py:20), and one that a direct caller constructs
Holders == {"processor", "rag", "caller"}

\* vector_service.py:11-24 when the endpoints are imported: the collection
\* exists and the services refer to it, the caller having constructed no
\* VectorService yet (handle 0); vindex holds the entries of the collection
\* that exists, and is empty when none does
FirstCollection == [id |-> 1, exists |-> TRUE]
FirstHandles == [h \in Holders |-> IF h = "caller" THEN 0 ELSE FirstCollection.id]

\* self.collection of holder h is the collection that exists; a handle on
\* a collection that was deleted is not one on the collection created
\* under the same name afterwards
Attached(h) == client.exists /\ handles[h] = client.id

\* client.get_or_create_collection, vector_service.py:20-23 and 216-219
get_or_create_collection(coll) ==
    IF coll.exists THEN coll ELSE [id |-> coll.id + 1, exists |-> TRUE]

\* the outcomes of a call on self.collection of holder h: every call on a
\* collection that is gone raises
IndexOutcomes(h) == IF Attached(h) THEN Outcomes ELSE {FALSE}
CountIndex(h, ok) ==
    nfaults' = IF ok \/ ~Attached(h) THEN nfaults ELSE nfaults + 1

Init ==
    /\ files = [d \in Docs |-> CASE d = "d1" -> FileLong
                                  [] d = "d2" -> FileBlank
                                  [] OTHER -> FileShort]
    /\ status = [d \in Docs |-> "pending"]
    /\ chunks = {}
    /\ jobs = <<>>
    /\ vindex = {}
    /\ runs = 0
    /\ calls = 0
    /\ nfaults = 0
    /\ call = [r \in Slots |-> IdleCall]
    /\ client = FirstCollection
    /\ handles = FirstHandles
    /\ sessions = {}
    /\ messages = <<>>
    /\ ask = IdleAsk
    /\ chk = IdleChunker

(***************************************************************************)
(* sqlalchemy Session as the services use it.                              *)
(***************************************************************************)
\* db.commit() succeeds; after a commit whose flush failed, every later use
\* of the session raises until db.rollback(), which the pipeline never calls
CommitOK(c) == ~c.needs_rollback

\* the table without its unique constraint: no commit is rejected
NoUniqueConstraint(stored, rows) == FALSE

\* UniqueConstraint('document_id', 'chunk_index') on document_chunks
UniqueViolation(stored, rows) ==
    \/ \E a \in stored : \E k \in 1..Len(rows) :
          a.document_id = rows[k].document_id /\ a.chunk_index = rows[k].chunk_index
    \/ \E k1, k2 \in 1..Len(rows) :
          k1 # k2 /\ rows[k1].document_id = rows[k2].document_id
                  /\ rows[k1].chunk_index = rows[k2].chunk_index

\* the statuses committed during a run, without repetitions
Record(hist, st) ==
    IF hist # <<>> /\ hist[Len(hist)] = st THEN hist ELSE Append(hist, st)

\* a commit that writes Document.processing_status
SetStatus(c, st) == status' = [status EXCEPT ![c.doc] = st]

(***************************************************************************)
(* processing_jobs rows (pdf_service.py:101-140).                          *)
(***************************************************************************)
NewJob(d, type, st, started, run) ==
    [document_id |-> d, job_type |-> type, status |-> st,
     progress_percentage |-> 0, error_message |-> "",
     started_at |-> started, completed_at |-> FALSE, run |-> run]

\* PDFService.create_processing_job
create_processing_job(d, type, run) == NewJob(d, type, "pending", FALSE, run)

\* PDFService.update_processing_job; progress -1 and error_message "" are None
update_processing_job(job, st, progress, error_message) ==
    [job EXCEPT
       !.status = st,
       !.progress_percentage =
           IF st = "completed" THEN 100
           ELSE IF progress # -1 THEN progress ELSE @,
       !.error_message = IF error_message # "" THEN error_message ELSE @,
       !.started_at = IF st = "running" THEN TRUE ELSE @,
       !.completed_at = IF st \in {"completed", "failed"} THEN TRUE ELSE @]

(***************************************************************************)
(* The end of a pipeline run.                                              *)
(***************************************************************************)
\* process_document_full_pipeline returns results
Returned(c, results) ==
    [c EXCEPT !.pc = "proc_done", !.outcome = "returned", !.results = results]

\* an exception leaves process_document_full_pipeline
Raised(c) == [c EXCEPT !.pc = "proc_done", !.outcome = "raised"]

AddError(results, msg) == [results EXCEPT !.errors = Append(@, msg)]

\* no request is being served in slot r
Idle(c) ==
    \/ c.pc \in {"idle", "bulk_done"}
    \/ c.pc = "proc_done" /\ c.op # "bulk"

(***************************************************************************)
(* DocumentProcessor.process_document_full_pipeline, step by step.         *)
(***************************************************************************)
\* a caller invokes process(document, chunking_method)
ProcessStart(r, d, m) ==
    /\ call' = [call EXCEPT ![r] =
                  [IdleCall EXCEPT !.op = "process", !.pc = "begin", !.doc = d,
                                   !.user = user_id(d), !.method = m,
                                   !.loaded_status = status[d]]]
    /\ UNCHANGED <<files, status, chunks, jobs, vindex, runs, nfaults>>
    /\ UNCHANGED <<chat_vars, handle_vars>>

\* a caller that waits for each call to end calls process
ProcessCall(r, d, m) ==
    /\ Idle(call[r])
    /\ calls < MaxCalls
    /\ calls' = calls + 1
    /\ ProcessStart(r, d, m)

\* lines 26-39: results, status "extracting"; the commit writes the status
\* unless the document comes from the endpoint as it was loaded, with that
\* status (reprocess and bulk_process have committed before, which expires
\* what was loaded)
PipelineBegin(r) ==
    LET c == call[r] IN
    /\ c.pc = "begin"
    /\ runs' = runs + 1
    /\ IF c.op = "process" /\ c.loaded_status = "extracting" THEN UNCHANGED status
       ELSE SetStatus(c, "extracting")
    /\ call' = [call EXCEPT ![r] =
                  [c EXCEPT !.pc = "pdf_create_job", !.run = runs + 1,
                            !.results = InitResults, !.outcome = "none",
                            !.exc = "", !.made = 0, !.loaded = <<>>, !.i = 0,
                            !.all_embeddings = 0,
                            !.ran = @ \cup {c.doc},
                            !.hist = Record(<<status[c.doc]>>, "extracting")]]
    /\ UNCHANGED <<files, chunks, jobs, vindex, nfaults, calls>>
    /\ UNCHANGED <<chat_vars, handle_vars>>

\* pdf_service.py:145: the extract_text job is created pending
PdfCreateJob(r) ==
    LET c == call[r] IN
    /\ c.pc = "pdf_create_job"
    /\ jobs' = Append(jobs, create_processing_job(c.doc, "extract_text", c.run))
    /\ call' = [call EXCEPT ![r] = [c EXCEPT !.pc = "pdf_job_running",
                                             !.job = Len(jobs) + 1]]
    /\ UNCHANGED <<files, status, chunks, vindex, runs, nfaults, calls>>
    /\ UNCHANGED <<chat_vars, handle_vars>>

\* a variant of the update at pdf_service.py:149 that marks every job of
\* the document as running, the finished ones included
PdfJobRunningAll(r) ==
    LET c == call[r] IN
    /\ c.pc = "pdf_job_running"
    /\ jobs' = [k \in 1..Len(jobs) |->
                  IF jobs[k].document_id = c.doc
                  THEN update_processing_job(jobs[k], "running", 0, "")
                  ELSE jobs[k]]
    /\ call' = [call EXCEPT ![r] = [c EXCEPT !.pc = "pdf_mark"]]
    /\ UNCHANGED <<files, status, chunks, vindex, runs, nfaults, calls>>
    /\ UNCHANGED <<chat_vars, handle_vars>>

\* pdf_service.py:149: the job is running
PdfJobRunning(r) ==
    LET c == call[r] IN
    /\ c.pc = "pdf_job_running"
    /\ jobs' = [jobs EXCEPT ![c.job] = update_processing_job(@, "running", 0, "")]
    /\ call' = [call EXCEPT ![r] = [c EXCEPT !.pc = "pdf_mark"]]
    /\ UNCHANGED <<files, status, chunks, vindex, runs, nfaults, calls>>
    /\ UNCHANGED <<chat_vars, handle_vars>>

\* pdf_service.py:152-153: status "extracting"
PdfMarkExtracting(r) ==
    LET c == call[r] IN
    /\ c.pc = "pdf_mark"
    /\ SetStatus(c, "extracting")
    /\ call' = [call EXCEPT ![r] = [c EXCEPT !.pc = "pdf_extract",
                                             !.hist = Record(@, "extracting")]]
    /\ UNCHANGED <<files, chunks, jobs, vindex, runs, nfaults, calls>>
    /\ UNCHANGED <<chat_vars, handle_vars>>

\* pdf_service.py:156-159 and 174-176: the file is read; on success the job
\* is at 50, on failure it is failed with the error
PdfExtract(r) ==
    LET c == call[r] IN
    /\ c.pc = "pdf_extract"
    /\ \E readable \in FileOutcomes(c.doc) : CountRead(c.doc, readable) /\
         IF readable
         THEN /\ jobs' = [jobs EXCEPT ![c.job] =
                            update_processing_job(@, "running", 50, "")]
              /\ call' = [call EXCEPT ![r] = [c EXCEPT !.pc = "pdf_complete"]]
         ELSE /\ jobs' = [jobs EXCEPT ![c.job] =
                            update_processing_job(@, "failed", -1,
                                                  "Failed to extract text with pdfplumber")]
              /\ call' = [call EXCEPT ![r] = [c EXCEPT !.pc = "pdf_fail",
                                                       !.faults = TRUE]]
    /\ UNCHANGED <<files, status, chunks, vindex, runs, calls>>
    /\ UNCHANGED <<chat_vars, handle_vars>>

\* pdf_service.py:178-182 and document_processor.py:42-44
PdfFail(r) ==
    LET c == call[r] IN
    /\ c.pc = "pdf_fail"
    /\ SetStatus(c, "failed")
    /\ call' = [call EXCEPT ![r] =
                  Returned([c EXCEPT !.hist = Record(@, "failed")],
                           AddError(c.results, "Text extraction failed"))]
    /\ UNCHANGED <<files, chunks, jobs, vindex, runs, nfaults, calls>>
    /\ UNCHANGED <<chat_vars, handle_vars>>

\* pdf_service.py:161-172: the document is marked "completed" and the job
\* completed in one commit; document_processor.py:46
PdfComplete(r) ==
    LET c == call[r] IN
    /\ c.pc = "pdf_complete"
    /\ SetStatus(c, "completed")
    /\ jobs' = [jobs EXCEPT ![c.job] = update_processing_job(@, "completed", 100, "")]
    /\ call' = [call EXCEPT ![r] =
                  [c EXCEPT !.pc = "get_text", !.hist = Record(@, "completed"),
                            !.results = [@ EXCEPT !.text_extraction = TRUE]]]
    /\ UNCHANGED <<files, chunks, vindex, runs, nfaults, calls>>
    /\ UNCHANGED <<chat_vars, handle_vars>>

\* a variant of get_document_text that never returns None: a document
\* without text is reported as one blank
get_document_text_never_none(seen, d, readable) ==
    IF seen # "completed" \/ ~readable \/ extract_text(files[d]) = <<>>
    THEN <<" ">>
    ELSE extract_text(files[d])

\* PDFService.get_document_text: None unless the status that was read is
\* "completed" and the file can be read again
get_document_text(seen, d, readable) ==
    IF seen # "completed" \/ ~readable THEN <<>>
    ELSE extract_text(files[d])

\* document_processor.py:49 and pdf_service.py:186: the processing_status of
\* the document, expired by the last commit, is read again from the store
GetTextStatus(r) ==
    LET c == call[r] IN
    /\ c.pc = "get_text"
    /\ call' = [call EXCEPT ![r] = [c EXCEPT !.pc = "get_text_read",
                                             !.seen = status[c.doc]]]
    /\ UNCHANGED <<files, status, chunks, jobs, vindex, runs, nfaults, calls>>
    /\ UNCHANGED <<chat_vars, handle_vars>>

\* pdf_service.py:186-193 and document_processor.py:50-52: with a status
\* other than "completed" the file is not opened; else it is read again; no
\* text ends the run
GetTextRead(r) ==
    LET c == call[r] IN
    /\ c.pc = "get_text_read"
    /\ \E readable \in (IF c.seen = "completed" THEN FileOutcomes(c.doc) ELSE {TRUE}) :
         /\ CountRead(c.doc, readable)
         /\ call' = [call EXCEPT ![r] =
                       IF get_document_text(c.seen, c.doc, readable) = <<>>
                       THEN Returned([c EXCEPT !.faults = @ \/ ~readable],
                                     AddError(c.results, "No text content extracted"))
                       ELSE [c EXCEPT !.pc = "get_text_commit"]]
    /\ UNCHANGED <<files, status, chunks, jobs, vindex, runs, calls>>
    /\ UNCHANGED <<chat_vars, handle_vars>>

\* document_processor.py:54-56: status "chunking" is committed
GetText(r) ==
    LET c == call[r] IN
    /\ c.pc = "get_text_commit"
    /\ SetStatus(c, "chunking")
    /\ call' = [call EXCEPT ![r] =
                  [c EXCEPT !.pc = "chunk_create_job",
                            !.hist = Record(@, "chunking")]]
    /\ UNCHANGED <<files, chunks, jobs, vindex, runs, nfaults, calls>>
    /\ UNCHANGED <<chat_vars, handle_vars>>

(***************************************************************************)
(* ChunkingService.create_document_chunks                                  *)
(***************************************************************************)
\* chunking_service.py:174-181: the generate_chunks job is created running
ChunkCreateJob(r) ==
    LET c == call[r] IN
    /\ c.pc = "chunk_create_job"
    /\ jobs' = Append(jobs, NewJob(c.doc, "generate_chunks", "running", TRUE, c.run))
    /\ call' = [call EXCEPT ![r] = [c EXCEPT !.pc = "chunk_commit",
                                             !.job = Len(jobs) + 1]]
    /\ UNCHANGED <<files, status, chunks, vindex, runs, nfaults, calls>>
    /\ UNCHANGED <<chat_vars, handle_vars>>

\* chunking_service.py:185-193: chunks_data for a known method
chunks_data(text, method) ==
    IF method = "sliding_window"
    THEN create_chunks_sliding_window(clean_text(text), chunk_size, chunk_overlap)
    ELSE create_chunks_paragraph_based(clean_text(text), chunk_size)

\* chunking_service.py:196-217: the DocumentChunk rows of a run; the id of a
\* row is fresh, here the run and the position
DocumentChunks(d, run, data) ==
    [k \in 1..Len(data) |->
       [id |-> <<run, k>>, document_id |-> d, chunk_index |-> data[k].index,
        content |-> data[k].content,
        character_count |-> data[k].character_count,
        word_count |-> data[k].word_count,
        embedding_id |-> NULL]]

\* chunking_service.py:183-228: the rows are built and committed with the
\* completed job and status "chunking_completed"; an unknown method raises
\* ValueError, a rejected commit raises IntegrityError and leaves the session
\* in need of a rollback
ChunkCommit(r) ==
    LET c == call[r]
        rows == DocumentChunks(c.doc, c.run,
                               chunks_data(extract_text(files[c.doc]), c.method))
    IN
    /\ c.pc = "chunk_commit"
    /\ IF c.method \notin {"sliding_window", "paragraph"}
       THEN /\ call' = [call EXCEPT ![r] =
                          [c EXCEPT !.pc = "chunk_except", !.faults = TRUE,
                                    !.exc = "Unknown chunking method"]]
            /\ UNCHANGED <<status, chunks, jobs>>
       ELSE IF UniqueViolation(chunks, rows)
       THEN /\ call' = [call EXCEPT ![r] =
                          [c EXCEPT !.pc = "chunk_except", !.needs_rollback = TRUE,
                                    !.exc = "IntegrityError"]]
            /\ UNCHANGED <<status, chunks, jobs>>
       ELSE /\ chunks' = chunks \cup {rows[k] : k \in 1..Len(rows)}
            /\ jobs' = [jobs EXCEPT ![c.job] =
                          [@ EXCEPT !.status = "completed", !.completed_at = TRUE,
                                    !.progress_percentage = 100]]
            /\ SetStatus(c, "chunking_completed")
            /\ call' = [call EXCEPT ![r] =
                          [c EXCEPT !.pc = "after_chunk", !.made = Len(rows),
                                    !.hist = Record(@, "chunking_completed")]]
    /\ UNCHANGED <<files, vindex, runs, nfaults, calls>>
    /\ UNCHANGED <<chat_vars, handle_vars>>

\* chunking_service.py:230-240: the handler marks the job failed and the
\* document "chunking_failed", commits and re-raises; when the session needs
\* a rollback the handler's commit raises instead
ChunkExcept(r) ==
    LET c == call[r] IN
    /\ c.pc = "chunk_except"
    /\ IF CommitOK(c)
       THEN /\ jobs' = [jobs EXCEPT ![c.job] =
                          [@ EXCEPT !.status = "failed", !.error_message = c.exc,
                                    !.completed_at = TRUE]]
            /\ SetStatus(c, "chunking_failed")
            /\ call' = [call EXCEPT ![r] =
                          [c EXCEPT !.pc = "orch_except",
                                    !.hist = Record(@, "chunking_failed")]]
       ELSE /\ call' = [call EXCEPT ![r] =
                          [c EXCEPT !.pc = "orch_except",
                                    !.exc = "PendingRollbackError"]]
            /\ UNCHANGED <<status, jobs>>
    /\ UNCHANGED <<files, chunks, vindex, runs, nfaults, calls>>
    /\ UNCHANGED <<chat_vars, handle_vars>>

\* document_processor.py:91-100: the error is appended, the status "failed"
\* is committed and results returned; when that commit raises, the
\* exception leaves the function
OrchExcept(r) ==
    LET c == call[r]
        results == AddError(c.results, "Document processing failed")
    IN
    /\ c.pc = "orch_except"
    /\ IF CommitOK(c)
       THEN /\ SetStatus(c, "failed")
            /\ call' = [call EXCEPT ![r] =
                          Returned([c EXCEPT !.hist = Record(@, "failed")], results)]
       ELSE /\ call' = [call EXCEPT ![r] = Raised([c EXCEPT !.results = results])]
            /\ UNCHANGED status
    /\ UNCHANGED <<files, chunks, jobs, vindex, runs, nfaults, calls>>
    /\ UNCHANGED <<chat_vars, handle_vars>>

\* document_processor.py:62-72: no chunk ends the run, else status "embedding"
AfterChunk(r) ==
    LET c == call[r] IN
    /\ c.pc = "after_chunk"
    /\ IF c.made = 0
       THEN /\ call' = [call EXCEPT ![r] =
                          Returned(c, AddError(c.results, "No chunks created"))]
            /\ UNCHANGED status
       ELSE /\ SetStatus(c, "embedding")
            /\ call' = [call EXCEPT ![r] =
                          [c EXCEPT !.pc = "emb_create_job",
                                    !.hist = Record(@, "embedding"),
                                    !.results = [@ EXCEPT !.chunking = TRUE,
                                                          !.total_chunks = c.made]]]
    /\ UNCHANGED <<files, chunks, jobs, vindex, runs, nfaults, calls>>
    /\ UNCHANGED <<chat_vars, handle_vars>>

(***************************************************************************)
(* EmbeddingService.process_document_embeddings                            *)
(***************************************************************************)
\* embedding_service.py:61-68: the create_embeddings job is created running
EmbCreateJob(r) ==
    LET c == call[r] IN
    /\ c.pc = "emb_create_job"
    /\ jobs' = Append(jobs, NewJob(c.doc, "create_embeddings", "running", TRUE, c.run))
    /\ call' = [call EXCEPT ![r] =
                  [c EXCEPT !.pc = "emb_load", !.job = Len(jobs) + 1,
                            !.stage_vindex = vindex,
                            !.stage_chunks = {x \in chunks : x.document_id = c.doc}]]
    /\ UNCHANGED <<files, status, chunks, vindex, runs, nfaults, calls>>
    /\ UNCHANGED <<chat_vars, handle_vars>>

\* the rows of S, ORDER BY chunk_index
RECURSIVE OrderByIndex(_)
OrderByIndex(S) ==
    IF S = {} THEN <<>>
    ELSE LET x == CHOOSE y \in S : \A z \in S : y.chunk_index <= z.chunk_index
         IN  <<x>> \o OrderByIndex(S \ {x})

\* embedding_service.py:72-81: the chunks of the document are loaded
EmbLoadChunks(r) ==
    LET c == call[r]
        found == OrderByIndex({x \in chunks : x.document_id = c.doc})
    IN
    /\ c.pc = "emb_load"
    /\ call' = [call EXCEPT ![r] =
                  IF found = <<>>
                  THEN [c EXCEPT !.pc = "emb_fail",
                                 !.exc = "No chunks found for document"]
                  ELSE [c EXCEPT !.pc = "emb_batch", !.loaded = found, !.i = 0,
                                 !.all_embeddings = 0]]
    /\ UNCHANGED <<files, status, chunks, jobs, vindex, runs, nfaults, calls>>
    /\ UNCHANGED <<chat_vars, handle_vars>>

\* int(a / n * 50) of Python for 1 <= n <= 200 and 1 <= a <= n + 10: the
\* quotient and the product are rounded to a double before the truncation,
\* which gives one less than the integer quotient (a * 50) \div n for the
\* pairs <<a, n>> of FloatBelow and the integer quotient for every other
FloatBelow ==
    {<<29, 25>>, <<29, 50>>, <<57, 50>>, <<58, 50>>, <<58, 100>>, <<87, 150>>, <<116, 200>>}
HalfShare(a, n) ==
    (a * 50) \div n - (IF <<a, n>> \in FloatBelow THEN 1 ELSE 0)

\* embedding_service.py:93: min(100, int((i + batch_size) / total_chunks * 50))
BatchProgress(i, total_chunks) == Min(100, HalfShare(i + batch_size, total_chunks))

\* embedding_service.py:117: 50 + int((i + 1) / total_chunks * 50)
StoreProgress(i, total_chunks) == 50 + HalfShare(i + 1, total_chunks)

\* a variant of the batch loop that stores the embeddings of each batch in
\* the vector index as soon as the provider returns them
EmbBatchEager(r) ==
    LET c == call[r]
        total_chunks == Len(c.loaded)
        batch == Min(batch_size, total_chunks - c.i)
        ids == {c.loaded[k].id : k \in (c.i + 1)..(c.i + batch)}
    IN
    /\ c.pc = "emb_batch"
    /\ \E ok \in Outcomes : Count1(ok) /\
         IF ok
         THEN /\ jobs' = [jobs EXCEPT ![c.job].progress_percentage =
                            Min(100, ((c.i + batch_size) * 50) \div total_chunks)]
              /\ vindex' = vindex \cup
                    {[chunk_id |-> x.id, document_id |-> x.document_id,
                      chunk_index |-> x.chunk_index, user_id |-> user_id(c.doc)] :
                       x \in {y \in chunks : y.id \in ids}}
              /\ call' = [call EXCEPT ![r] =
                            [c EXCEPT !.all_embeddings = @ + batch,
                                      !.i = IF c.i + batch_size < total_chunks
                                            THEN c.i + batch_size ELSE 0,
                                      !.pc = IF c.i + batch_size < total_chunks
                                             THEN "emb_batch" ELSE "emb_store"]]
         ELSE /\ call' = [call EXCEPT ![r] =
                            [c EXCEPT !.pc = "emb_fail", !.faults = TRUE,
                                      !.exc = "Failed to generate batch embeddings"]]
              /\ UNCHANGED <<jobs, vindex>>
    /\ UNCHANGED <<files, status, chunks, runs, calls>>
    /\ UNCHANGED <<chat_vars, handle_vars>>

\* embedding_service.py:87-95: one batch call to the provider; its
\* embeddings are kept in memory and the progress is committed
EmbBatch(r) ==
    LET c == call[r]
        total_chunks == Len(c.loaded)
        batch == Min(batch_size, total_chunks - c.i)
    IN
    /\ c.pc = "emb_batch"
    /\ \E ok \in Outcomes : Count1(ok) /\
         IF ok
         THEN /\ jobs' = [jobs EXCEPT ![c.job].progress_percentage =
                            BatchProgress(c.i, total_chunks)]
              /\ call' = [call EXCEPT ![r] =
                            [c EXCEPT !.all_embeddings = @ + batch,
                                      !.i = IF c.i + batch_size < total_chunks
                                            THEN c.i + batch_size ELSE 0,
                                      !.pc = IF c.i + batch_size < total_chunks
                                             THEN "emb_batch" ELSE "emb_store"]]
         ELSE /\ call' = [call EXCEPT ![r] =
                            [c EXCEPT !.pc = "emb_fail", !.faults = TRUE,
                                      !.exc = "Failed to generate batch embeddings"]]
              /\ UNCHANGED jobs
    /\ UNCHANGED <<files, status, chunks, vindex, runs, calls>>
    /\ UNCHANGED <<chat_vars, handle_vars>>

\* VectorService.add_document: the entry of a chunk, keyed by its id; an id
\* that is already in the collection is left as it is
add_document(collection, chunk, user) ==
    IF \E e \in collection : e.chunk_id = chunk.id THEN collection
    ELSE collection \cup {[chunk_id |-> chunk.id, document_id |-> chunk.document_id,
                           chunk_index |-> chunk.chunk_index, user_id |-> user]}

\* embedding_service.py:98-111: the next chunk, as it was loaded, is added
\* to the vector index
EmbStore(r) ==
    LET c == call[r]
        chunk == c.loaded[c.i + 1]
    IN
    /\ c.pc = "emb_store"
    /\ \E ok \in IndexOutcomes("processor") : CountIndex("processor", ok) /\
         IF ok
         THEN /\ vindex' = add_document(vindex, chunk, user_id(c.doc))
              /\ call' = [call EXCEPT ![r] = [c EXCEPT !.pc = "emb_store_commit"]]
         ELSE /\ call' = [call EXCEPT ![r] =
                            [c EXCEPT !.pc = "emb_fail", !.faults = TRUE,
                                      !.exc = "Failed to add document to vector database"]]
              /\ UNCHANGED vindex
    /\ UNCHANGED <<files, status, chunks, jobs, runs, calls>>
    /\ UNCHANGED <<chat_vars, handle_vars>>

\* embedding_service.py:113-119: the embedding_id of the chunk and the
\* progress are committed; when the row of the chunk is no longer in the
\* table the UPDATE matches no row, the flush raises StaleDataError and the
\* session needs a rollback, so the commit of the handler (line 141) raises
EmbStoreCommit(r) ==
    LET c == call[r]
        total_chunks == Len(c.loaded)
        id == c.loaded[c.i + 1].id
    IN
    /\ c.pc = "emb_store_commit"
    /\ IF \E x \in chunks : x.id = id
       THEN /\ chunks' = {IF x.id = id THEN [x EXCEPT !.embedding_id = id] ELSE x :
                            x \in chunks}
            /\ jobs' = [jobs EXCEPT ![c.job].progress_percentage =
                          StoreProgress(c.i, total_chunks)]
            /\ call' = [call EXCEPT ![r] =
                          [c EXCEPT !.i = c.i + 1,
                                    !.pc = IF c.i + 1 < Min(total_chunks, c.all_embeddings)
                                           THEN "emb_store" ELSE "emb_complete"]]
       ELSE /\ call' = [call EXCEPT ![r] =
                          [c EXCEPT !.pc = "orch_except", !.needs_rollback = TRUE,
                                    !.exc = "StaleDataError"]]
            /\ UNCHANGED <<chunks, jobs>>
    /\ UNCHANGED <<files, status, vindex, runs, nfaults, calls>>
    /\ UNCHANGED <<chat_vars, handle_vars>>

\* embedding_service.py:121-130: the job is completed and the status
\* "completed" in one commit
EmbComplete(r) ==
    LET c == call[r] IN
    /\ c.pc = "emb_complete"
    /\ jobs' = [jobs EXCEPT ![c.job] =
                  [@ EXCEPT !.status = "completed", !.completed_at = TRUE,
                            !.progress_percentage = 100]]
    /\ SetStatus(c, "completed")
    /\ call' = [call EXCEPT ![r] =
                  [c EXCEPT !.pc = "pipeline_complete",
                            !.hist = Record(@, "completed")]]
    /\ UNCHANGED <<files, chunks, vindex, runs, nfaults, calls>>
    /\ UNCHANGED <<chat_vars, handle_vars>>

\* document_processor.py:82-89: the status "completed" is committed once
\* more and the results are returned
PipelineComplete(r) ==
    LET c == call[r] IN
    /\ c.pc = "pipeline_complete"
    /\ SetStatus(c, "completed")
    /\ call' = [call EXCEPT ![r] =
                  Returned([c EXCEPT !.hist = Record(@, "completed")],
                           [c.results EXCEPT !.embedding_generation = TRUE])]
    /\ UNCHANGED <<files, chunks, jobs, vindex, runs, nfaults, calls>>
    /\ UNCHANGED <<chat_vars, handle_vars>>

\* embedding_service.py:132-142 and document_processor.py:78-80: the job is
\* failed with the error, the status "embedding_failed"
EmbFail(r) ==
    LET c == call[r] IN
    /\ c.pc = "emb_fail"
    /\ jobs' = [jobs EXCEPT ![c.job] =
                  [@ EXCEPT !.status = "failed", !.error_message = c.exc,
                            !.completed_at = TRUE]]
    /\ SetStatus(c, "embedding_failed")
    /\ call' = [call EXCEPT ![r] =
                  Returned([c EXCEPT !.hist = Record(@, "embedding_failed")],
                           AddError(c.results, "Embedding generation failed"))]
    /\ UNCHANGED <<files, chunks, vindex, runs, nfaults, calls>>
    /\ UNCHANGED <<chat_vars, handle_vars>>

(***************************************************************************)
(* DocumentProcessor.reprocess_document and cleanup_document_data          *)
(***************************************************************************)
\* collection.delete(ids=...), vector_service.py:108 and 122: the entries
\* of these ids are deleted; a failure deletes nothing
delete_ids(entries, ids, ok) ==
    IF ok THEN {e \in entries : e.chunk_id \notin ids} ELSE entries

\* what a document's chunk rows and vector entries hold, apart from the
\* generated ids
ChunkView(d) ==
    {[chunk_index |-> x.chunk_index, content |-> x.content,
      embedded |-> x.embedding_id # NULL] : x \in {y \in chunks : y.document_id = d}}
IndexView(d) ==
    {e.chunk_index : e \in {y \in vindex : y.document_id = d}}

\* the document went through the whole pipeline: it is completed and each
\* of its chunks has its entry in the vector index
ProcessedSuccessfully(d) ==
    /\ status[d] = "completed"
    /\ \E x \in chunks : x.document_id = d
    /\ \A x \in chunks : x.document_id = d =>
          x.embedding_id = x.id /\ \E e \in vindex : e.chunk_id = x.id

\* documents.py:155-158 and document_processor.py:109: the document is
\* loaded, with its processing_status; prev keeps what the call before this
\* one in the slot returned and left
ReprocessStart(r, d, m) ==
    LET c == call[r] IN
    /\ call' = [call EXCEPT ![r] =
                  [IdleCall EXCEPT
                     !.op = "reprocess", !.pc = "cleanup_get", !.doc = d,
                     !.user = user_id(d), !.method = m,
                     !.loaded_status = status[d],
                     !.processed = ProcessedSuccessfully(d),
                     !.prev = [op |-> c.op, doc |-> c.doc, outcome |-> c.outcome,
                               processed |-> c.processed, faults |-> c.faults,
                               total_chunks |-> c.results.total_chunks,
                               status |-> status[c.doc],
                               chunks |-> ChunkView(c.doc),
                               vindex |-> IndexView(c.doc)]]]
    /\ UNCHANGED <<files, status, chunks, jobs, vindex, runs, nfaults>>
    /\ UNCHANGED <<chat_vars, handle_vars>>

\* a caller that waits for each call to end calls reprocess
ReprocessCall(r, d, m) ==
    /\ Idle(call[r])
    /\ calls < MaxCalls
    /\ calls' = calls + 1
    /\ ReprocessStart(r, d, m)

\* cleanup_document_data, document_processor.py:123-133, and
\* vector_service.py:116-119: collection.get reads the entries of the
\* document; when it raises, delete_document_chunks returns False and
\* nothing is deleted; the chunk rows are left to a cascade
ReprocessGet(r) ==
    LET c == call[r] IN
    /\ c.pc = "cleanup_get"
    /\ \E ok \in IndexOutcomes("processor") :
         /\ CountIndex("processor", ok)
         /\ call' = [call EXCEPT ![r] =
                       IF ok
                       THEN [c EXCEPT !.existing = {e \in vindex : e.document_id = c.doc},
                                      !.pc = IF \E e \in vindex : e.document_id = c.doc
                                             THEN "cleanup_delete" ELSE "reset"]
                       ELSE [c EXCEPT !.faults = TRUE, !.pc = "reset"]]
    /\ UNCHANGED <<files, status, chunks, jobs, vindex, runs, calls>>
    /\ UNCHANGED <<chat_vars, handle_vars>>

\* vector_service.py:121-122: collection.delete removes the entries whose
\* ids collection.get returned, and no entry added since; a failure is
\* swallowed
ReprocessDelete(r) ==
    LET c == call[r] IN
    /\ c.pc = "cleanup_delete"
    /\ \E ok \in IndexOutcomes("processor") :
         /\ CountIndex("processor", ok)
         /\ vindex' = delete_ids(vindex, {e.chunk_id : e \in c.existing}, ok)
         /\ call' = [call EXCEPT ![r] = [c EXCEPT !.faults = ~ok, !.pc = "reset"]]
    /\ UNCHANGED <<files, status, chunks, jobs, runs, calls>>
    /\ UNCHANGED <<chat_vars, handle_vars>>

\* document_processor.py:116-121: the status is set to "pending" and the
\* session committed, then the pipeline is run; the commit writes the
\* status only when it differs from the one the document was loaded with
ReprocessReset(r) ==
    LET c == call[r] IN
    /\ c.pc = "reset"
    /\ IF c.loaded_status # "pending" THEN SetStatus(c, "pending")
       ELSE UNCHANGED status
    /\ call' = [call EXCEPT ![r] = [c EXCEPT !.pc = "begin"]]
    /\ UNCHANGED <<files, chunks, jobs, vindex, runs, nfaults, calls>>
    /\ UNCHANGED <<chat_vars, handle_vars>>

(***************************************************************************)
(* DocumentProcessor.bulk_process_documents                                *)
(***************************************************************************)
\* the sequences that list each element of S once
RECURSIVE Orders(_)
Orders(S) ==
    IF S = {} THEN {<<>>}
    ELSE UNION {{<<x>> \o q : q \in Orders(S \ {x})} : x \in S}

\* document_processor.py:195-198: the documents of the user that are
\* pending or failed
pending_docs(u) == {d \in Docs : user_id(d) = u /\ status[d] \in {"pending", "failed"}}

\* document_processor.py:195-205: the query, in the order the store returns
\* the rows, and the empty summary
BulkStart(r, u, m) ==
    /\ \E q \in Orders(pending_docs(u)) :
         call' = [call EXCEPT ![r] =
                    [IdleCall EXCEPT
                       !.op = "bulk", !.pc = "bulk_loop", !.user = u, !.method = m,
                       !.queue = q, !.selected = pending_docs(u),
                       !.summary = [total_documents |-> Len(q), processed |-> 0,
                                    failed |-> 0, details |-> <<>>],
                       !.bulk_pre = [status |-> status, chunks |-> chunks,
                                     jobs |-> jobs]]]
    /\ UNCHANGED <<files, status, chunks, jobs, vindex, runs, nfaults>>
    /\ UNCHANGED <<chat_vars, handle_vars>>

\* a caller that waits for each call to end calls bulk_process
BulkCall(r, u, m) ==
    /\ Idle(call[r])
    /\ calls < MaxCalls
    /\ calls' = calls + 1
    /\ BulkStart(r, u, m)

\* document_processor.py:207-208 and 223: the next document is processed, or
\* the summary is returned
BulkLoop(r) ==
    LET c == call[r] IN
    /\ c.pc = "bulk_loop"
    /\ call' = [call EXCEPT ![r] =
                  IF c.queue = <<>>
                  THEN [c EXCEPT !.pc = "bulk_done", !.bulk_outcome = "returned"]
                  ELSE [c EXCEPT !.pc = "begin", !.doc = Head(c.queue),
                                 !.queue = Tail(c.queue)]]
    /\ UNCHANGED <<files, status, chunks, jobs, vindex, runs, nfaults, calls>>
    /\ UNCHANGED <<chat_vars, handle_vars>>

\* document_processor.py:210-221: the result of a document is added to the
\* summary; an exception that left process leaves bulk_process too
BulkAccumulate(r) ==
    LET c == call[r]
        ok == c.results.errors = <<>>
    IN
    /\ c.pc = "proc_done"
    /\ c.op = "bulk"
    /\ call' = [call EXCEPT ![r] =
                  IF c.outcome = "raised"
                  THEN [c EXCEPT !.pc = "bulk_done", !.bulk_outcome = "raised"]
                  ELSE [c EXCEPT
                          !.pc = "bulk_loop",
                          !.summary =
                             [@ EXCEPT
                                !.processed = IF ok THEN @ + 1 ELSE @,
                                !.failed = IF ok THEN @ ELSE @ + 1,
                                !.details = Append(@,
                                   [document_id |-> c.doc, success |-> ok,
                                    chunks_created |-> c.results.total_chunks,
                                    errors |-> c.results.errors])]]]
    /\ UNCHANGED <<files, status, chunks, jobs, vindex, runs, nfaults, calls>>
    /\ UNCHANGED <<chat_vars, handle_vars>>

(***************************************************************************)
(* The specification.                                                      *)
(***************************************************************************)
Step(r) ==
    \/ \E d \in Docs, m \in Methods : ProcessCall(r, d, m)
    \/ \E d \in Docs : ReprocessCall(r, d, "sliding_window")
    \/ \E u \in Users : BulkCall(r, u, "sliding_window")
    \/ PipelineBegin(r)
    \/ PdfCreateJob(r)
    \/ PdfJobRunning(r)
    \/ PdfMarkExtracting(r)
    \/ PdfExtract(r)
    \/ PdfFail(r)
    \/ PdfComplete(r)
    \/ GetTextStatus(r) \/ GetTextRead(r) \/ GetText(r)
    \/ ChunkCreateJob(r)
    \/ ChunkCommit(r)
    \/ ChunkExcept(r)
    \/ OrchExcept(r)
    \/ AfterChunk(r)
    \/ EmbCreateJob(r)
    \/ EmbLoadChunks(r)
    \/ EmbBatch(r)
    \/ EmbStore(r)
    \/ EmbStoreCommit(r)
    \/ EmbComplete(r)
    \/ PipelineComplete(r)
    \/ ReprocessGet(r)
    \/ ReprocessDelete(r)
    \/ ReprocessReset(r)
    \/ EmbFail(r)
    \/ BulkLoop(r)
    \/ BulkAccumulate(r)

Next == \E r \in Slots : Step(r)

Spec == Init /\ [][Next]_vars

(***************************************************************************)
(* Properties of process.                                                  *)
(***************************************************************************)
FailedFamily == {"failed", "chunking_failed", "embedding_failed"}

\* a pipeline run has ended in slot r, by a return or by an exception
Ended(r) == call[r].pc = "proc_done"
\* process returned its results in slot r
Returns(r) == Ended(r) /\ call[r].outcome = "returned"

\* p is a prefix of q
IsPrefix(p, q) == Len(p) <= Len(q) /\ SubSeq(q, 1, Len(p)) = p

\* the order of the stages
StageOrder == <<"pending", "extracting", "chunking", "embedding", "completed">>

\* C1: process(document) never raises: every run of the pipeline, whatever
\* fails in it and also on a document that already has chunks, ends by
\* returning the result object, never by an exception.
C1_ProcessNeverRaises ==
    \A r \in Slots : Ended(r) =>
        /\ call[r].outcome = "returned"
        /\ DOMAIN call[r].results =
             {"text_extraction", "chunking", "embedding_generation",
              "total_chunks", "errors"}

\* C2: during a run that starts from "pending", the committed statuses
\* follow pending, extracting, chunking, embedding, completed in this order
\* without skipping a stage, possibly cut short by one failed-family value;
\* "completed" is not committed before the embedding stage has succeeded.
C2_StatusOrder ==
    \A r \in Slots :
      LET h == call[r].hist IN
      (h # <<>> /\ h[1] = "pending") =>
        /\ \/ IsPrefix(h, StageOrder)
           \/ /\ h[Len(h)] \in FailedFamily
              /\ IsPrefix(SubSeq(h, 1, Len(h) - 1), StageOrder)
              /\ Len(h) - 1 < Len(StageOrder)
        /\ (\E k \in 1..Len(h) : h[k] = "completed") =>
             call[r].results.embedding_generation

\* C3: when process returns with errors the committed status is in the
\* failed family; it is "completed" only when there is no error and the
\* three stages are reported done.
C3_ErrorsMeanFailed ==
    \A r \in Slots : Returns(r) =>
      LET res == call[r].results
          st == status[call[r].doc]
      IN  /\ res.errors # <<>> => st \in FailedFamily
          /\ st = "completed" =>
                /\ res.errors = <<>>
                /\ res.text_extraction /\ res.chunking /\ res.embedding_generation

\* C4: when the extraction of a document succeeds but gives no text, process
\* returns errors = ["No text content extracted"], chunking = False,
\* total_chunks = 0, the status is neither "chunking" nor "completed" and no
\* chunk of the document is stored.
C4_EmptyText ==
    \A r \in Slots :
      (/\ Returns(r)
       /\ call[r].results.text_extraction
       /\ ~call[r].faults
       /\ extract_text(files[call[r].doc]) = <<>>) =>
        /\ call[r].results.errors = <<"No text content extracted">>
        /\ ~call[r].results.chunking
        /\ call[r].results.total_chunks = 0
        /\ status[call[r].doc] \notin {"chunking", "completed"}
        /\ ~\E x \in chunks : x.document_id = call[r].doc

(***************************************************************************)
(* Properties of reprocess.                                                *)
(***************************************************************************)
\* the chunk rows stored for document d
ChunksOf(d) == {x \in chunks : x.document_id = d}

\* C5: reprocess is idempotent: for a document that was processed
\* successfully, two reprocess calls in succession, without any failure of
\* the environment, both return, with the same final status and the same
\* total_chunks, and leave the same chunk rows and vector entries.
C5_ReprocessIdempotent ==
    \A r \in Slots :
      LET c == call[r] IN
      (/\ Ended(r) /\ c.op = "reprocess" /\ ~c.faults
       /\ c.prev.op = "reprocess" /\ c.prev.doc = c.doc
       /\ c.prev.processed /\ ~c.prev.faults) =>
        /\ c.outcome = "returned" /\ c.prev.outcome = "returned"
        /\ status[c.doc] = c.prev.status
        /\ c.results.total_chunks = c.prev.total_chunks
        /\ ChunkView(c.doc) = c.prev.chunks
        /\ IndexView(c.doc) = c.prev.vindex

\* C6: after reprocess returns, the chunk rows stored for the document are
\* exactly the chunks generated by that run: no row of an earlier run is
\* left and their number is the run's total_chunks.
C6_ReprocessReplacesChunks ==
    \A r \in Slots :
      LET c == call[r] IN
      (Returns(r) /\ c.op = "reprocess") =>
        /\ \A x \in ChunksOf(c.doc) : x.id[1] = c.run
        /\ Cardinality(ChunksOf(c.doc)) = c.results.total_chunks

(***************************************************************************)
(* Properties of the stored chunks.                                        *)
(***************************************************************************)
\* C7: in every reachable state the chunk rows of each document have
\* pairwise distinct chunk_index values, which form the range 0..N-1.
C7_ChunkIndexContiguous ==
    \A d \in Docs :
      /\ \A x, y \in ChunksOf(d) : x # y => x.chunk_index # y.chunk_index
      /\ {x.chunk_index : x \in ChunksOf(d)} = 0..(Cardinality(ChunksOf(d)) - 1)

\* a run has ended on a document that had chunks of an earlier run, and the
\* document has at least two chunks
C7_Witness ==
    \E r \in Slots :
      /\ Ended(r)
      /\ call[r].pc = "proc_done" /\ call[r].exc = "PendingRollbackError"
      /\ Cardinality(ChunksOf(call[r].doc)) >= 2
      /\ \E x \in ChunksOf(call[r].doc) : x.id[1] < call[r].run

(***************************************************************************)
(* Properties of the embedding stage.                                      *)
(***************************************************************************)
BatchFailure == "Failed to generate batch embeddings"

\* C8: when an embedding batch call fails, nothing of the stage is stored:
\* the vector index and the chunks' references are as they were when the
\* stage began, the create_embeddings job ends failed with an error message
\* and the document is "embedding_failed" when process returns.
C8_BatchFailureAborts ==
    \A r \in Slots :
      LET c == call[r] IN
      (c.pc \in {"emb_fail", "proc_done"} /\ c.exc = BatchFailure) =>
        /\ vindex = c.stage_vindex
        /\ ChunksOf(c.doc) = c.stage_chunks
        /\ \A x \in ChunksOf(c.doc) : x.id[1] = c.run => x.embedding_id = NULL
        /\ Ended(r) =>
             /\ c.outcome = "returned"
             /\ jobs[c.job].job_type = "create_embeddings"
             /\ jobs[c.job].run = c.run
             /\ jobs[c.job].status = "failed"
             /\ jobs[c.job].error_message # ""
             /\ status[c.doc] = "embedding_failed"

\* process has returned after the second batch of a document failed, the
\* first one having succeeded
C8_Witness ==
    \E r \in Slots :
      /\ Returns(r) /\ call[r].exc = BatchFailure
      /\ call[r].all_embeddings = batch_size
      /\ Len(call[r].loaded) > batch_size

(***************************************************************************)
(* Properties of bulk_process.                                             *)
(***************************************************************************)
\* bulk_process has ended in slot r, by a return or by an exception
BulkEnded(r) == call[r].pc = "bulk_done"

\* C9: bulk_process runs process on every selected document, continuing
\* past a failing one, and returns a summary with total = number of selected
\* documents, processed + failed = total, failed = number of documents whose
\* result has errors, and one details entry per selected document, with
\* errors for each failed one.
C9_BulkSummary ==
    \A r \in Slots :
      LET c == call[r]
          det == c.summary.details
      IN
      BulkEnded(r) =>
        /\ c.bulk_outcome = "returned"
        /\ c.ran = c.selected
        /\ c.summary.total_documents = Cardinality(c.selected)
        /\ c.summary.processed + c.summary.failed = c.summary.total_documents
        /\ c.summary.failed = Cardinality({k \in 1..Len(det) : det[k].errors # <<>>})
        /\ Len(det) = c.summary.total_documents
        /\ {det[k].document_id : k \in 1..Len(det)} = c.selected
        /\ \A k \in 1..Len(det) : ~det[k].success <=> det[k].errors # <<>>

\* the rows of table rows that belong to document d
JobsOf(rows, d) == {k \in 1..Len(rows) : rows[k].document_id = d}

\* C10: bulk_process runs process on a document if and only if it belongs
\* to the user and was pending or failed at selection; the status, chunks
\* and jobs of every other document are left unchanged.
C10_BulkSelection ==
    \A r \in Slots :
      LET c == call[r] IN
      BulkEnded(r) =>
        /\ \A d \in Docs :
             d \in c.ran <=>
               /\ user_id(d) = c.user
               /\ c.bulk_pre.status[d] \in {"pending", "failed"}
        /\ \A d \in Docs \ c.selected :
             /\ status[d] = c.bulk_pre.status[d]
             /\ ChunksOf(d) = {x \in c.bulk_pre.chunks : x.document_id = d}
             /\ JobsOf(jobs, d) = JobsOf(c.bulk_pre.jobs, d)
             /\ \A k \in JobsOf(jobs, d) : jobs[k] = c.bulk_pre.jobs[k]

(***************************************************************************)
(* Retrieval: the vector index queried for a question.                     *)
(***************************************************************************)
\* the questions asked; q2 is far from every chunk
Questions == {"q1", "q2"}

\* squared L2 distances, in sixteenths, between the embedding of q1 and the
\* embeddings of the chunks of a document of u1, by chunk_index
DistanceTable == <<4, 0, 12, 8, 9, 2, 16, 8, 20, 10, 1>>

\* vector_service.py:87: the distance the collection reports for an entry,
\* in sixteenths; the chunks of u2 are the closest to q1
Distance(q, e) ==
    IF q = "q2" THEN 32 + e.chunk_index
    ELSE IF e.user_id = "u2" THEN 0
    ELSE IF e.chunk_index + 1 <= Len(DistanceTable)
         THEN DistanceTable[e.chunk_index + 1]
         ELSE 24 + e.chunk_index

\* vector_service.py:88: similarity = 1 / (1 + distance), in thousandths
Similarity(distance) == 16000 \div (16 + distance)

\* rag_service.py:170-171: limit=5, similarity_threshold=0.6 (thousandths)
limit == 5
similarity_threshold == 600

\* a where clause on the document ids alone
where_clause_documents_only(e, document_ids, user) ==
    document_ids # {} => e.document_id \in document_ids

\* vector_service.py:67-72: the where clause on the metadata of an entry
where_clause(e, document_ids, user) ==
    /\ document_ids # {} => e.document_id \in document_ids
    /\ user # "" => e.user_id = user

\* the orders in which the collection can return the entries S, nearest
\* first; entries at the same distance come in any order
RECURSIVE Ranked(_, _)
Ranked(q, S) ==
    IF S = {} THEN {<<>>}
    ELSE LET nearest == {e \in S : \A f \in S : Distance(q, e) <= Distance(q, f)}
         IN  UNION {{<<e>> \o t : t \in Ranked(q, S \ {e})} : e \in nearest}

\* vector_service.py:82-96: a query result formatted as a search result
SearchResult(q, e) ==
    [chunk_id |-> e.chunk_id, document_id |-> e.document_id,
     user_id |-> e.user_id, distance |-> Distance(q, e),
     similarity |-> Similarity(Distance(q, e))]

\* VectorService.search: the n nearest entries that match the where clause;
\* the set of the result lists the collection can give
search(collection, q, n, document_ids, user) ==
    LET matching == {e \in collection : where_clause(e, document_ids, user)}
    IN  {[k \in 1..Min(n, Len(seq)) |-> SearchResult(q, seq[k])] :
           seq \in Ranked(q, matching)}

\* embedding_service.py:168-186: the results at or above the threshold whose
\* chunk row exists, with the document of the row
RECURSIVE FilterResults(_, _)
FilterResults(search_results, threshold) ==
    IF search_results = <<>> THEN <<>>
    ELSE LET result == Head(search_results)
             rows == {x \in chunks : x.id = result.chunk_id}
             rest == FilterResults(Tail(search_results), threshold)
         IN  IF result.similarity >= threshold /\ rows # {}
             THEN <<[chunk |-> result.chunk_id,
                     document |-> (CHOOSE x \in rows : TRUE).document_id,
                     similarity |-> result.similarity]>> \o rest
             ELSE rest

\* list.sort(key=similarity, reverse=True): a stable sort, equal keys keep
\* their order
RECURSIVE InsertDesc(_, _)
InsertDesc(sorted, x) ==
    IF sorted = <<>> THEN <<x>>
    ELSE IF Head(sorted).similarity >= x.similarity
         THEN <<Head(sorted)>> \o InsertDesc(Tail(sorted), x)
         ELSE <<x>> \o sorted
RECURSIVE SortDesc(_)
SortDesc(results) ==
    IF results = <<>> THEN <<>>
    ELSE InsertDesc(SortDesc(SubSeq(results, 1, Len(results) - 1)),
                    results[Len(results)])

\* search_similar_chunks without its threshold: every result is kept
search_similar_chunks_unfiltered(search_results, lim, threshold) ==
    TakeN(SortDesc(FilterResults(search_results, 0)), lim)

\* EmbeddingService.search_similar_chunks, from the search results on
search_similar_chunks(search_results, lim, threshold) ==
    LET results == SortDesc(FilterResults(search_results, threshold))
    IN  TakeN(results, lim)

(***************************************************************************)
(* The store when questions are asked: the documents have been processed   *)
(* and chat sessions exist.                                                *)
(***************************************************************************)
\* the variables of the document store
store_vars == <<files, status, chunks, jobs, vindex, runs, call, client, handles>>

\* the file of each document, as in Init
StoredFiles ==
    [d \in Docs |-> CASE d = "d1" -> FileLong
                      [] d = "d2" -> FileBlank
                      [] OTHER -> FileShort]

\* the chunk rows of document d after the successful run `run` of process
ProcessedRows(d, run) ==
    LET rows == DocumentChunks(d, run,
                    chunks_data(extract_text(StoredFiles[d]), "sliding_window"))
    IN  {[rows[k] EXCEPT !.embedding_id = rows[k].id] : k \in 1..Len(rows)}

\* the vector entries of a set of embedded chunk rows
RECURSIVE IndexOf(_)
IndexOf(rows) ==
    IF rows = {} THEN {}
    ELSE LET x == CHOOSE y \in rows : TRUE
         IN  add_document(IndexOf(rows \ {x}), x, user_id(x.document_id))

\* a job of run `run` that has completed
CompletedJob(d, type, run) ==
    update_processing_job(NewJob(d, type, "running", TRUE, run), "completed", -1, "")

\* the document store after process(d1), process(d3), process(d2) without a
\* failure
RagStore ==
    /\ files = StoredFiles
    /\ status = [d \in Docs |-> "completed"]
    /\ chunks = ProcessedRows("d1", 1) \cup ProcessedRows("d3", 2)
    /\ vindex = IndexOf(ProcessedRows("d1", 1) \cup ProcessedRows("d3", 2))
    /\ jobs = <<CompletedJob("d1", "extract_text", 1),
                CompletedJob("d1", "generate_chunks", 1),
                CompletedJob("d1", "create_embeddings", 1),
                CompletedJob("d3", "extract_text", 2),
                CompletedJob("d3", "generate_chunks", 2),
                CompletedJob("d3", "create_embeddings", 2),
                CompletedJob("d2", "extract_text", 3)>>

\* models/chat.py:9-20: a chat session as it is first committed; a title is
\* text that nothing reads and is left out
NewSession(id, u, f, sp) ==
    [id |-> id, user_id |-> u, document_filter |-> f, is_active |-> TRUE,
     system_prompt |-> sp, last_message_at |-> 0]

\* the state in which questions are asked: the processed documents, and
\* three rows of chat_sessions: sessions 1 and 3 as the sessions endpoint
\* stores them, and session 2 a row that holds a filter, which no request
\* can store (JsonSerializable) and which the store may hold all the same
RagInit ==
    /\ RagStore
    /\ runs = 3
    /\ calls = 0
    /\ nfaults = 0
    /\ call = [r \in Slots |-> IdleCall]
    /\ client = FirstCollection
    /\ handles = FirstHandles
    /\ sessions = {NewSession(1, "u1", {}, "None"),
                   NewSession(2, "u1", {"d1"}, "None"),
                   NewSession(3, "u2", {}, "None")}
    /\ messages = <<>>
    /\ ask = IdleAsk
    /\ chk = IdleChunker

(***************************************************************************)
(* RAGService.answer_question (rag_service.py:128-261).                    *)
(***************************************************************************)
\* requests to the chat endpoints made in a behaviour
MaxAsks == 2

\* the session ids of a request: 0 is no session id, 4 is the id of the
\* session that the first request may create, 9 is the id of no session
SessionIds == {0, 1, 2, 3, 4, 9}

\* the document filters of a request
Filters == {{}, {"d1"}, {"d3"}}

\* models/chat.py:16 and schemas/chat.py:13, 19, 62: a document filter is a
\* list of uuid.UUID objects written to a JSON column; json.dumps, the
\* serializer of a JSON column, raises TypeError for a UUID, so only the
\* empty list can be written
JsonSerializable(f) == f = {}

\* the system prompts of a session
Prompts == {"None", "sp"}

\* schemas/chat.py:16-20 and chat.py:127: the fields a ChatSessionUpdate
\* sets, <<>> for a field that is unset and <<v>> for one set to v
Patches ==
    [document_filter : {<<>>} \cup {<<f>> : f \in Filters},
     is_active : {<<>>, <<TRUE>>, <<FALSE>>},
     system_prompt : {<<>>, <<"sp">>}]

\* chat.py:127-129: setattr for every field that is set
Patched(s, patch) ==
    [s EXCEPT !.document_filter = IF patch.document_filter = <<>> THEN @
                                  ELSE patch.document_filter[1],
              !.is_active = IF patch.is_active = <<>> THEN @
                            ELSE patch.is_active[1],
              !.system_prompt = IF patch.system_prompt = <<>> THEN @
                                ELSE patch.system_prompt[1]]

\* models/chat.py:24: the messages that are left when those of session sid
\* are deleted with it
RECURSIVE WithoutSession(_, _)
WithoutSession(rows, sid) ==
    IF rows = <<>> THEN <<>>
    ELSE (IF Head(rows).session_id = sid THEN <<>> ELSE <<Head(rows)>>)
           \o WithoutSession(Tail(rows), sid)


\* rag_service.py:176: the answer given when nothing relevant was found
NotFoundAnswer == "I couldn't find relevant information"

\* models/document.py:38: DocumentChunk.id is a UUID(as_uuid=True) column, a
\* chunk's id is a uuid.UUID object
ChunkIdIsUUID == TRUE

\* a lookup of the session by its id alone
FindSessionOfAnyUser(sid, u) == {s \in sessions : s.id = sid}

\* rag_service.py:143-146: the session of that id owned by the user
FindSession(sid, u) == {s \in sessions : s.id = sid /\ s.user_id = u}

\* the request's filter taking precedence
request_filter_first(session_filter, document_filter) ==
    IF document_filter # {} THEN document_filter ELSE session_filter

\* rag_service.py:161: the session's filter takes precedence
effective_filter(session_filter, document_filter) ==
    IF session_filter # {} THEN session_filter ELSE document_filter

\* a request arrives
AskCall(u, q, sid, f) ==
    /\ ask.pc \in {"idle", "done"}
    /\ calls < MaxAsks
    /\ calls' = calls + 1
    /\ ask' = [IdleAsk EXCEPT !.pc = "resolve", !.user = u, !.question = q,
                              !.session_id = sid, !.document_filter = f,
                              !.pre = [sessions |-> sessions,
                                       messages |-> messages]]
    /\ UNCHANGED <<sessions, messages, chk, nfaults>>
    /\ UNCHANGED store_vars

\* create_chat_session, chat.py:46-64: a session of the user is added,
\* committed and refreshed; with a filter that is not empty the flush of the
\* commit raises TypeError and nothing is stored
CreateSession(u, f, sp) ==
    /\ ask.pc \in {"idle", "done"}
    /\ calls < MaxAsks
    /\ calls' = calls + 1
    /\ IF ~JsonSerializable(f)
       THEN UNCHANGED <<sessions, nfaults>>
       ELSE \E o \in DbOutcomes :
              /\ CountDb(o)
              /\ sessions' = IF o = "commit failed" THEN sessions
                             ELSE sessions \cup {NewSession(4 + calls, u, f, sp)}
    /\ ask' = IdleAsk
    /\ UNCHANGED <<messages, chk>>
    /\ UNCHANGED store_vars

\* update_chat_session, chat.py:108-134: the session of the user is looked
\* up, 404 when there is none; the fields that are set are assigned,
\* committed and refreshed; with a filter that is not empty the flush of
\* the commit raises TypeError and no field is stored
UpdateSession(u, sid, patch) ==
    /\ ask.pc \in {"idle", "done"}
    /\ calls < MaxAsks
    /\ calls' = calls + 1
    /\ IF FindSession(sid, u) = {}
       THEN UNCHANGED <<sessions, nfaults>>
       ELSE IF patch.document_filter # <<>>
               /\ ~JsonSerializable(patch.document_filter[1])
       THEN UNCHANGED <<sessions, nfaults>>
       ELSE \E o \in DbOutcomes :
              /\ CountDb(o)
              /\ sessions' = IF o = "commit failed" THEN sessions
                             ELSE {IF s \in FindSession(sid, u)
                                   THEN Patched(s, patch) ELSE s : s \in sessions}
    /\ ask' = IdleAsk
    /\ UNCHANGED <<messages, chk>>
    /\ UNCHANGED store_vars

\* delete_chat_session, chat.py:137-156: the session of the user is looked
\* up, 404 when there is none; the session is deleted, and its messages
\* with it (models/chat.py:24), and the delete is committed
DeleteSession(u, sid) ==
    /\ ask.pc \in {"idle", "done"}
    /\ calls < MaxAsks
    /\ calls' = calls + 1
    /\ IF FindSession(sid, u) = {}
       THEN UNCHANGED <<sessions, messages, nfaults>>
       ELSE \E ok \in Outcomes :
              /\ Count1(ok)
              /\ IF ok
                 THEN /\ sessions' = sessions \ FindSession(sid, u)
                      /\ messages' = WithoutSession(messages, sid)
                 ELSE UNCHANGED <<sessions, messages>>
    /\ ask' = IdleAsk
    /\ UNCHANGED chk
    /\ UNCHANGED store_vars

\* rag_service.py:142-158: the session is looked up, or a new one is added,
\* committed and refreshed; a filter that is not empty cannot be written
\* and the flush of the commit raises
ResolveSession ==
    /\ ask.pc = "resolve"
    /\ IF ask.session_id # 0
       THEN /\ ask' = IF FindSession(ask.session_id, ask.user) = {}
                      THEN [ask EXCEPT !.pc = "except",
                                       !.exc = "Chat session not found"]
                      ELSE [ask EXCEPT !.pc = "embed",
                                       !.session = ask.session_id]
            /\ UNCHANGED <<sessions, nfaults>>
       ELSE IF ~JsonSerializable(ask.document_filter)
       THEN /\ ask' = [ask EXCEPT !.pc = "except", !.exc = "TypeError"]
            /\ UNCHANGED <<sessions, nfaults>>
       ELSE \E o \in DbOutcomes : CountDb(o) /\
              IF o = "commit failed"
              THEN /\ ask' = [ask EXCEPT !.pc = "except", !.exc = o]
                   /\ UNCHANGED sessions
              ELSE /\ sessions' = sessions \cup
                        {NewSession(10 + calls, ask.user,
                                    ask.document_filter, "None")}
                   /\ ask' = IF o = "ok"
                             THEN [ask EXCEPT !.pc = "embed",
                                              !.session = 10 + calls,
                                              !.created = TRUE]
                             ELSE [ask EXCEPT !.pc = "except", !.exc = o,
                                              !.created = TRUE]
    /\ UNCHANGED <<messages, chk, calls>>
    /\ UNCHANGED store_vars

\* rag_service.py:161 and embedding_service.py:157: the effective filter is
\* taken and the question is embedded
EmbedQuestion ==
    /\ ask.pc = "embed"
    /\ LET session == CHOOSE s \in sessions : s.id = ask.session
           filter == effective_filter(session.document_filter, ask.document_filter)
       IN  \E ok \in Outcomes : Count1(ok) /\
             ask' = [ask EXCEPT !.searched_filter = filter,
                                !.searched_user = ask.user,
                                !.embed_calls = @ + 1,
                                !.pc = IF ok THEN "query" ELSE "except",
                                !.exc = IF ok THEN ""
                                        ELSE "Failed to search similar chunks"]
    /\ UNCHANGED <<sessions, messages, chk, calls>>
    /\ UNCHANGED store_vars

\* embedding_service.py:160-190: the index is queried for limit * 2 entries
\* and the results are filtered, sorted and cut; a where clause with two
\* keys is taken as their conjunction or rejected, depending on the
\* client's validation
QueryIndex ==
    /\ ask.pc = "query"
    /\ \E ok \in Outcomes : Count1(ok) /\
         \E accepted \in BOOLEAN :
           IF ok /\ (accepted \/ ask.searched_filter = {})
           THEN \E search_results \in
                    search(vindex, ask.question, limit * 2,
                           ask.searched_filter, ask.searched_user) :
                  LET relevant_chunks ==
                        search_similar_chunks(search_results, limit,
                                              similarity_threshold)
                  IN  ask' = [ask EXCEPT
                                !.searched = TRUE,
                                !.index_calls = @ + 1,
                                !.relevant_chunks = relevant_chunks,
                                !.pc = IF relevant_chunks = <<>>
                                       THEN "not_found" ELSE "generate"]
           ELSE ask' = [ask EXCEPT !.index_calls = @ + 1, !.pc = "except",
                                   !.exc = "Failed to search similar chunks"]
    /\ UNCHANGED <<sessions, messages, chk, calls>>
    /\ UNCHANGED store_vars

\* a variant that asks the model although nothing relevant was found
NoContextAsksModel ==
    /\ ask.pc = "not_found"
    /\ ask' = [ask EXCEPT !.answer = "generated", !.sources = <<>>,
                          !.token_usage = "usage", !.response_time_ms = 7,
                          !.model_used = "default_model",
                          !.model_calls = @ + 1, !.pc = "persist"]
    /\ UNCHANGED <<sessions, messages, chk, calls, nfaults>>
    /\ UNCHANGED store_vars

\* rag_service.py:174-182: nothing relevant, the canned answer
NoContext ==
    /\ ask.pc = "not_found"
    /\ ask' = [ask EXCEPT !.answer = NotFoundAnswer, !.sources = <<>>,
                          !.token_usage = "None", !.response_time_ms = 0,
                          !.model_used = "None", !.pc = "persist"]
    /\ UNCHANGED <<sessions, messages, chk, calls, nfaults>>
    /\ UNCHANGED store_vars

\* rag_service.py:210-221: the sources of the relevant chunks
Sources(relevant_chunks) ==
    [k \in 1..Len(relevant_chunks) |->
       [document_id |-> relevant_chunks[k].document,
        chunk_id |-> relevant_chunks[k].chunk,
        similarity |-> relevant_chunks[k].similarity]]

\* rag_service.py:184-221: the model is called with the prompt, the sources
\* are prepared
GenerateAnswer ==
    /\ ask.pc = "generate"
    /\ \E ok \in Outcomes : Count1(ok) /\
         \E ms \in {0, 7} :
           ask' = IF ok
                  THEN [ask EXCEPT !.answer = "generated",
                                   !.token_usage = "usage",
                                   !.response_time_ms = ms,
                                   !.model_used = "default_model",
                                   !.model_calls = @ + 1,
                                   !.sources = Sources(ask.relevant_chunks),
                                   !.pc = "persist"]
                  ELSE [ask EXCEPT !.model_calls = @ + 1, !.pc = "except",
                                   !.exc = "Failed to generate answer"]
    /\ UNCHANGED <<sessions, messages, chk, calls>>
    /\ UNCHANGED store_vars

\* rag_service.py:223-257: the two messages are added, the session's
\* last_message_at is set, all is committed and the assistant message is
\* refreshed; uuid.UUID(chunk.id) at line 236 raises AttributeError when the
\* id is a uuid.UUID object
Persist ==
    /\ ask.pc = "persist"
    /\ IF ask.relevant_chunks # <<>> /\ ChunkIdIsUUID
       THEN /\ ask' = [ask EXCEPT !.pc = "except", !.exc = "AttributeError"]
            /\ UNCHANGED <<sessions, messages, nfaults>>
       ELSE \E o \in DbOutcomes : CountDb(o) /\
              IF o # "commit failed"
              THEN /\ messages' = messages \o
                        <<[session_id |-> ask.session, message_type |-> "user",
                           content |-> ask.question, source_chunks |-> <<>>,
                           token_usage |-> "None", response_time_ms |-> -1],
                          [session_id |-> ask.session,
                           message_type |-> "assistant",
                           content |-> ask.answer,
                           source_chunks |->
                              [k \in 1..Len(ask.relevant_chunks) |->
                                 ask.relevant_chunks[k].chunk],
                           token_usage |-> ask.token_usage,
                           response_time_ms |-> ask.response_time_ms]>>
                   /\ sessions' = {IF s.id = ask.session
                                   THEN [s EXCEPT !.last_message_at = calls]
                                   ELSE s : s \in sessions}
                   /\ ask' = IF o = "ok"
                             THEN [ask EXCEPT !.pc = "done", !.outcome = "returned"]
                             ELSE [ask EXCEPT !.pc = "except", !.exc = o]
              ELSE /\ ask' = [ask EXCEPT !.pc = "except", !.exc = o]
                   /\ UNCHANGED <<sessions, messages>>
    /\ UNCHANGED <<chk, calls>>
    /\ UNCHANGED store_vars

\* rag_service.py:259-261: what was not committed is rolled back and the
\* failure is raised
AnswerExcept ==
    /\ ask.pc = "except"
    /\ ask' = [ask EXCEPT !.pc = "done", !.outcome = "raised"]
    /\ UNCHANGED <<sessions, messages, chk, calls, nfaults>>
    /\ UNCHANGED store_vars

RagNext ==
    \/ \E u \in Users, q \in Questions, sid \in SessionIds, f \in Filters :
         AskCall(u, q, sid, f)
    \/ \E u \in Users, f \in Filters, sp \in Prompts : CreateSession(u, f, sp)
    \/ \E u \in Users, sid \in SessionIds \ {0}, patch \in Patches :
         UpdateSession(u, sid, patch)
    \/ \E u \in Users, sid \in SessionIds \ {0} : DeleteSession(u, sid)
    \/ ResolveSession
    \/ EmbedQuestion
    \/ QueryIndex
    \/ NoContext
    \/ GenerateAnswer
    \/ Persist
    \/ AnswerExcept

RagSpec == RagInit /\ [][RagNext]_vars

(***************************************************************************)
(* Properties of answer_question.                                          *)
(***************************************************************************)
\* the answer_question call has ended, by a return or by an exception
AskEnded == ask.pc = "done"
AskReturned == AskEnded /\ ask.outcome = "returned"

\* the entries of the index that belong to the caller's documents and to
\* the filter used for the search
Candidates ==
    {e \in vindex : /\ e.user_id = ask.user
                    /\ ask.searched_filter # {} =>
                         e.document_id \in ask.searched_filter}

\* the candidates at or above the threshold of 0.6
Survivors ==
    {e \in Candidates : 10 * Similarity(Distance(ask.question, e)) >= 6 * 1000}

\* C11: the sources prepared by answer_question hold no item below the
\* similarity threshold 0.6, at most 5 items, and are sorted by similarity
\* in descending order.
C11_SourcesThresholdCapOrder ==
    LET s == ask.sources IN
    /\ \A k \in 1..Len(s) : 10 * s[k].similarity >= 6 * 1000
    /\ Len(s) <= 5
    /\ \A j, k \in 1..Len(s) : j < k => s[j].similarity >= s[k].similarity

\* sources were prepared from more than five survivors of different
\* similarity while other candidates were below the threshold
C11_Witness ==
    /\ ask.pc = "persist"
    /\ Len(ask.sources) = 5
    /\ ask.sources[1].similarity > ask.sources[5].similarity
    /\ Cardinality(Survivors) > 5
    /\ Candidates \ Survivors # {}

\* C12: when no retrieved candidate survives the threshold, no call to the
\* generation model is made, and the call, unless an operation of the
\* environment fails, returns the canned answer with sources = [],
\* token_usage = None and response_time_ms = 0, having added to the session
\* exactly the user message and the assistant message with the canned text
\* and no source chunk.
C12_NotFoundAnswer ==
    (ask.searched /\ Survivors = {}) =>
      /\ ask.model_calls = 0
      /\ (AskEnded /\ ask.exc = "") =>
           /\ ask.outcome = "returned"
           /\ ask.answer = NotFoundAnswer
           /\ ask.sources = <<>>
           /\ ask.token_usage = "None"
           /\ ask.response_time_ms = 0
           /\ Len(messages) = Len(ask.pre.messages) + 2
           /\ SubSeq(messages, 1, Len(ask.pre.messages)) = ask.pre.messages
           /\ LET um == messages[Len(messages) - 1]
                  am == messages[Len(messages)]
              IN  /\ um.session_id = ask.session /\ um.message_type = "user"
                  /\ um.content = ask.question
                  /\ am.session_id = ask.session /\ am.message_type = "assistant"
                  /\ am.content = NotFoundAnswer
                  /\ am.source_chunks = <<>>

\* the canned answer was returned although the index held candidates
C12_Witness ==
    /\ AskReturned
    /\ ask.searched /\ Survivors = {} /\ Candidates # {}
    /\ ask.answer = NotFoundAnswer

\* C13: answer_question is atomic with respect to the store: a call that
\* returns with at least one source has added exactly the user message and
\* then the assistant message, whose source_chunks are the chunk ids of the
\* sources, and has set the session's last_message_at; a call that fails
\* leaves sessions and messages as they were before the call.
C13_AnswerAtomic ==
    /\ (AskReturned /\ ask.sources # <<>>) =>
         /\ Len(messages) = Len(ask.pre.messages) + 2
         /\ SubSeq(messages, 1, Len(ask.pre.messages)) = ask.pre.messages
         /\ messages[Len(messages) - 1].message_type = "user"
         /\ messages[Len(messages)].message_type = "assistant"
         /\ messages[Len(messages)].source_chunks =
              [k \in 1..Len(ask.sources) |-> ask.sources[k].chunk_id]
         /\ \E s \in sessions : s.id = ask.session /\ s.last_message_at = calls
    /\ (AskEnded /\ ask.outcome = "raised") =>
         /\ sessions = ask.pre.sessions
         /\ messages = ask.pre.messages

\* C14: a call with a session_id that names no session, or a session of
\* another user, fails with an error; no message is added, no session is
\* changed and no embedding, index or model call is made.
C14_ForeignSessionRejected ==
    (/\ ask.pc # "idle"
     /\ ask.session_id # 0
     /\ ~\E s \in ask.pre.sessions :
            s.id = ask.session_id /\ s.user_id = ask.user) =>
      /\ ask.pc \in {"resolve", "except", "done"}
      /\ AskEnded => ask.outcome = "raised"
      /\ ask.embed_calls = 0 /\ ask.index_calls = 0 /\ ask.model_calls = 0
      /\ messages = ask.pre.messages
      /\ sessions = ask.pre.sessions

\* a call with the id of a session of another user has ended
C14_Witness ==
    /\ AskEnded
    /\ \E s \in sessions : s.id = ask.session_id /\ s.user_id # ask.user

\* the filter that answer_question is to use: the session's stored filter
\* if it is not empty, else the filter of the request
StoredFilter ==
    UNION {s.document_filter : s \in {t \in sessions : t.id = ask.session}}
ExpectedFilter ==
    IF StoredFilter # {} THEN StoredFilter ELSE ask.document_filter

\* C15: every source is a chunk of a document owned by the calling user,
\* and of a document of the effective filter when that filter is not empty.
C15_SourcesOwnedAndFiltered ==
    \A k \in 1..Len(ask.sources) :
      /\ user_id(ask.sources[k].document_id) = ask.user
      /\ ExpectedFilter # {} => ask.sources[k].document_id \in ExpectedFilter
      /\ \E x \in chunks : /\ x.id = ask.sources[k].chunk_id
                           /\ x.document_id = ask.sources[k].document_id

\* sources were prepared under a filter while a chunk of another user was
\* closer to the question than each of them
C15_Witness ==
    /\ ask.sources # <<>>
    /\ ExpectedFilter # {}
    /\ \E e \in vindex :
         /\ e.user_id # ask.user
         /\ \A k \in 1..Len(ask.sources) :
              Similarity(Distance(ask.question, e)) >= ask.sources[k].similarity

\* C16: the filter used for retrieval is the session's stored filter when
\* that filter is not empty, whatever filter the request carries, and the
\* request's filter only when the session's filter is empty.
C16_SessionFilterFirst ==
    ask.embed_calls > 0 => ask.searched_filter = ExpectedFilter

\* the index was queried for a session with a stored filter and a request
\* with another filter
C16_Witness ==
    /\ ask.searched
    /\ StoredFilter # {}
    /\ ask.document_filter # {}
    /\ ask.document_filter # StoredFilter

(***************************************************************************)
(* A ChunkingService constructed with its own parameters and run on a text *)
(* (chunking_service.py:11-14, 183-193).                                   *)
(***************************************************************************)
\* sentences of a text given to the chunker
MaxSentences == 4

\* the sentences the texts are made of, and what separates two of them
Words == {<<"A", ".">>, <<"B", "!">>, <<"C", "c", "c", "?">>}
Separators == {<<" ">>, <<"\n", "\n">>}

\* the texts of n sentences
RECURSIVE TextsOf(_)
TextsOf(n) ==
    IF n = 1 THEN Words
    ELSE {t \o sep \o w : t \in TextsOf(n - 1), sep \in Separators, w \in Words}

Texts == UNION {TextsOf(n) : n \in 1..MaxSentences}

\* the chunk_size and chunk_overlap arguments of the constructor; 0 is also
\* what a caller that gives none passes (None)
SizeArgs == {0, 3, 5}
OverlapArgs == {0, 2, 4}

\* chunking_service.py:13-14: value or settings.value
OrDefault(value, default) == IF value = 0 THEN default ELSE value

ChunkInit ==
    /\ files = StoredFiles
    /\ status = [d \in Docs |-> "pending"]
    /\ chunks = {}
    /\ jobs = <<>>
    /\ vindex = {}
    /\ runs = 0
    /\ calls = 0
    /\ nfaults = 0
    /\ call = [r \in Slots |-> IdleCall]
    /\ client = FirstCollection
    /\ handles = FirstHandles
    /\ sessions = {}
    /\ messages = <<>>
    /\ ask = IdleAsk
    /\ chk \in {[IdleChunker EXCEPT !.pc = "new", !.text = t,
                                    !.size_arg = s, !.overlap_arg = o] :
                  t \in Texts, s \in SizeArgs, o \in OverlapArgs}

\* ChunkingService.__init__
Construct ==
    /\ chk.pc = "new"
    /\ chk' = [chk EXCEPT !.pc = "ready",
                          !.chunk_size = OrDefault(chk.size_arg, chunk_size),
                          !.chunk_overlap = OrDefault(chk.overlap_arg, chunk_overlap)]
    /\ UNCHANGED <<sessions, messages, ask, calls, nfaults>>
    /\ UNCHANGED store_vars

\* chunking_service.py:183-188: the text is cleaned and chunked with the
\* sliding window
RunSlidingWindow ==
    /\ chk.pc = "ready"
    /\ chk' = [chk EXCEPT !.pc = "done", !.method = "sliding_window",
                          !.out = create_chunks_sliding_window(
                                     clean_text(chk.text), chk.chunk_size,
                                     chk.chunk_overlap)]
    /\ UNCHANGED <<sessions, messages, ask, calls, nfaults>>
    /\ UNCHANGED store_vars

\* chunking_service.py:183-191: the text is cleaned and chunked by paragraphs
RunParagraph ==
    /\ chk.pc = "ready"
    /\ chk' = [chk EXCEPT !.pc = "done", !.method = "paragraph",
                          !.out = create_chunks_paragraph_based(
                                     clean_text(chk.text), chk.chunk_size)]
    /\ UNCHANGED <<sessions, messages, ask, calls, nfaults>>
    /\ UNCHANGED store_vars

ChunkNext ==
    \/ Construct
    \/ RunSlidingWindow
    \/ RunParagraph

ChunkSpec == ChunkInit /\ [][ChunkNext]_vars

(***************************************************************************)
(* Properties of the chunkers.                                             *)
(***************************************************************************)
\* the sliding-window chunker has been run
SlidingDone == chk.pc = "done" /\ chk.method = "sliding_window"

\* the sentences of the cleaned text, and those of chunk k
InputSentences == split_text_by_sentences(clean_text(chk.text))
ChunkSentences(k) == split_text_by_sentences(chk.out[k].content)

\* the last n elements of s
Suffix(s, n) == SubSeq(s, Len(s) - n + 1, Len(s))

\* the ways to read the chunks from the k-th on as overlap plus new
\* sentences: the numbers of leading sentences of each chunk that repeat the
\* end of the previous chunk, such that the other sentences, put one after
\* the other, are `remaining`
RECURSIVE Readings(_, _, _)
Readings(k, prev, remaining) ==
    IF k > Len(chk.out)
    THEN IF remaining = <<>> THEN {<<>>} ELSE {}
    ELSE LET T == ChunkSentences(k)
             fits == {o \in 0..Min(Len(prev), Len(T) - 1) :
                        /\ TakeN(T, o) = Suffix(prev, o)
                        /\ IsPrefix(DropN(T, o), remaining)}
         IN  UNION {{<<o>> \o rest :
                       rest \in Readings(k + 1, T,
                                         DropN(remaining, Len(T) - o))} :
                    o \in fits}

\* C17: sliding-window chunking loses no sentence: every sentence of the
\* cleaned text is in some chunk, and without the sentences repeated from
\* the previous chunk the chunks hold, in index order, the sentences of the
\* text once each and in their order.
C17_NoSentenceLost ==
    SlidingDone =>
      /\ \A i \in 1..Len(InputSentences) :
           \E k \in 1..Len(chk.out) : \E j \in 1..Len(ChunkSentences(k)) :
             ChunkSentences(k)[j] = InputSentences[i]
      /\ \A k \in 1..Len(chk.out) : chk.out[k].index = k - 1
      /\ Readings(1, <<>>, InputSentences) # {}

\* a text was cut into three chunks or more, one of which starts with the
\* last sentence of the chunk before it
C17_Witness ==
    /\ SlidingDone
    /\ Len(chk.out) >= 3
    /\ \E k \in 2..Len(chk.out) :
         /\ Len(ChunkSentences(k)) >= 2
         /\ ChunkSentences(k)[1] =
              ChunkSentences(k - 1)[Len(ChunkSentences(k - 1))]

\* C18: for every chunk_overlap >= 0 given to the chunker, 0 meaning no
\* overlap, what a chunk other than the first repeats from the end of the
\* previous chunk is a suffix of the previous chunk's sentences and takes,
\* as it stands in the chunk, at most chunk_overlap characters.
C18_OverlapWithinBudget ==
    SlidingDone =>
      /\ Readings(1, <<>>, InputSentences) # {}
      /\ \A reading \in Readings(1, <<>>, InputSentences) :
           \A k \in 2..Len(chk.out) :
             Len(Join(<<" ">>, TakeN(ChunkSentences(k), reading[k])))
               <= chk.overlap_arg

\* C19: every chunk of the sliding window has at most chunk_size
\* characters, except a chunk made of one sentence that alone is longer.
C19_ChunkWithinSize ==
    SlidingDone =>
      \A k \in 1..Len(chk.out) :
        Len(chk.out[k].content) > chk.chunk_size =>
          Len(ChunkSentences(k)) = 1

\* the paragraph chunker has been run
ParagraphDone == chk.pc = "done" /\ chk.method = "paragraph"

\* the paragraphs of the text: what blank lines separate
InputParagraphs == StripNonEmpty(SplitOn(chk.text, <<"\n", "\n">>, <<>>))

\* the paragraphs of the chunks from the k-th on, one after the other
RECURSIVE ChunkParagraphs(_)
ChunkParagraphs(k) ==
    IF k > Len(chk.out) THEN <<>>
    ELSE SplitOn(chk.out[k].content, <<"\n", "\n">>, <<>>) \o ChunkParagraphs(k + 1)

\* C20: a run with the paragraph method splits the text on blank lines and
\* gathers whole paragraphs under the size budget: the chunks hold, in index
\* order, every paragraph once, and a chunk is longer than chunk_size only
\* when it is one paragraph that alone is longer.
C20_ParagraphChunks ==
    ParagraphDone =>
      /\ ChunkParagraphs(1) =
           [i \in 1..Len(InputParagraphs) |-> clean_text(InputParagraphs[i])]
      /\ \A k \in 1..Len(chk.out) :
           Len(chk.out[k].content) > chk.chunk_size =>
             \E i \in 1..Len(InputParagraphs) :
               chk.out[k].content = clean_text(InputParagraphs[i])

(***************************************************************************)
(* Page markers in the stored chunks.                                      *)
(***************************************************************************)
\* s starts with a page marker '--- Page N ---' (extract_page_info's pattern)
PageMarkerAt(s) ==
    LET pre == <<"-", "-", "-", " ", "P", "a", "g", "e", " ">>
        rest == DropN(s, Len(pre))
        nd == SpanLen(rest, Digits)
    IN  /\ StartsWith(s, pre)
        /\ nd >= 1
        /\ StartsWith(DropN(rest, nd), <<" ", "-", "-", "-">>)

\* re.search(r'--- Page \d+ ---', s) finds a match
HasPageMarker(s) == \E i \in 1..Len(s) : PageMarkerAt(DropN(s, i - 1))

\* C21: text cleaning strips the page markers before chunking: no stored
\* chunk row has a content holding a page marker '--- Page N ---'.
C21_NoPageMarkerInChunks ==
    \A x \in chunks : ~HasPageMarker(x.content)

(***************************************************************************)
(* Properties of the stages and their jobs.                                *)
(***************************************************************************)
\* the positions in the jobs table of the jobs of type type created by run n
JobIndex(n, type) ==
    {k \in 1..Len(jobs) : jobs[k].run = n /\ jobs[k].job_type = type}

JobTypes == {"extract_text", "generate_chunks", "create_embeddings"}

\* C23: stages are not skipped within a run: a run creates at most one job
\* per job type, in the order extract_text, generate_chunks,
\* create_embeddings; its generate_chunks job exists only after its
\* extract_text job is completed and the extracted text is not empty, its
\* create_embeddings job only after its generate_chunks job is completed
\* with at least one chunk.
C23_StagesNotSkipped ==
    \A n \in 1..runs :
      /\ \A type \in JobTypes : Cardinality(JobIndex(n, type)) <= 1
      /\ \A c \in JobIndex(n, "generate_chunks") :
           /\ \E e \in JobIndex(n, "extract_text") :
                e < c /\ jobs[e].status = "completed"
           /\ extract_text(files[jobs[c].document_id]) # <<>>
      /\ \A m \in JobIndex(n, "create_embeddings") :
           /\ \E c \in JobIndex(n, "generate_chunks") :
                c < m /\ jobs[c].status = "completed"
           /\ \E x \in ChunksOf(jobs[m].document_id) : x.id[1] = n

\* a run has created its three jobs, and another run has stopped after the
\* extraction of a file without text
C23_Witness ==
    /\ \E n \in 1..runs : JobIndex(n, "create_embeddings") # {}
    /\ \E n \in 1..runs :
         /\ \E e \in JobIndex(n, "extract_text") :
              /\ jobs[e].status = "completed"
              /\ extract_text(files[jobs[e].document_id]) = <<>>
         /\ \E r \in Slots : Returns(r) /\ call[r].run = n

\* the status that names the stage of a job type
ActiveStage(type) ==
    CASE type = "extract_text" -> "extracting"
      [] type = "generate_chunks" -> "chunking"
      [] type = "create_embeddings" -> "embedding"

\* C24: whenever a job of a document is committed as running, the committed
\* processing_status of the document is the active stage of the job's type.
C24_RunningJobNamesStage ==
    \A k \in 1..Len(jobs) :
      jobs[k].status = "running" =>
        status[jobs[k].document_id] = ActiveStage(jobs[k].job_type)

\* C25: no job is left pending or running by a failure: when a process call
\* has ended, every job created by its run is completed or failed, and a
\* failed job carries an error message.
C25_NoJobLeftRunning ==
    \A r \in Slots : Ended(r) =>
      \A k \in 1..Len(jobs) : jobs[k].run = call[r].run =>
        /\ jobs[k].status \in {"completed", "failed"}
        /\ jobs[k].status = "failed" => jobs[k].error_message # ""

\* C26: the failed-family statuses are absorbing within a run: once a run
\* has committed failed, chunking_failed or embedding_failed it commits no
\* other status, so after an exception in the chunking stage the status is
\* "chunking_failed" when process returns.
C26_FailedAbsorbing ==
    \A r \in Slots :
      LET h == call[r].hist IN
      /\ \A k \in 2..(Len(h) - 1) : h[k] \notin FailedFamily
      /\ (Returns(r) /\ jobs # <<>> /\ jobs[call[r].job].run = call[r].run
            /\ jobs[call[r].job].job_type = "generate_chunks"
            /\ call[r].exc # "") =>
           status[call[r].doc] = "chunking_failed"

\* a finished job
Terminal(job) == job.status \in {"completed", "failed"}

\* the moves of a job's status
JobMoves ==
    {<<"pending", "running">>, <<"running", "completed">>, <<"running", "failed">>}

\* C27: a job moves only along pending, running, completed or failed; once
\* it is completed or failed no later call changes any of its fields; every
\* completed job has progress 100.
C27_JobsTerminal ==
    [][ /\ Len(jobs') >= Len(jobs)
        /\ \A k \in 1..Len(jobs) :
             /\ Terminal(jobs[k]) => jobs'[k] = jobs[k]
             /\ jobs'[k].status # jobs[k].status =>
                  <<jobs[k].status, jobs'[k].status>> \in JobMoves
        /\ \A k \in 1..Len(jobs') :
             jobs'[k].status = "completed" => jobs'[k].progress_percentage = 100
      ]_vars

\* a later call has ended on a document that has a completed job and a
\* failed job of an earlier run
C27_Witness ==
    \E r \in Slots :
      /\ Ended(r)
      /\ \E k \in 1..Len(jobs) :
           /\ jobs[k].document_id = call[r].doc /\ jobs[k].run < call[r].run
           /\ jobs[k].status = "completed"
      /\ \E k \in 1..Len(jobs) :
           /\ jobs[k].document_id = call[r].doc /\ jobs[k].run < call[r].run
           /\ jobs[k].status = "failed"

\* C28: the progress committed on a create_embeddings job stays within
\* 0..100 and never decreases; it is at most 50 while the batches are
\* embedded and within 50..100 while the chunks are stored.
C28_EmbeddingProgress ==
    [][ \A r \in Slots :
          LET c == call[r]
              before == jobs[c.job].progress_percentage
              after == jobs'[c.job].progress_percentage
          IN  /\ (c.pc = "emb_batch" /\ call'[r].pc \in {"emb_batch", "emb_store"}) =>
                   /\ before <= after
                   /\ after \in 0..50
              /\ (c.pc = "emb_store_commit"
                    /\ call'[r].pc \in {"emb_store", "emb_complete"}) =>
                   /\ before <= after
                   /\ after \in 50..100
      ]_vars

\* C29: partial embeddings are not committed when the stage fails while
\* storing: after the storing of a chunk has failed, some chunks having been
\* stored by the run, no chunk of the document keeps a reference to the
\* vector index from that run and no entry added by the run remains.
C29_NoPartialEmbeddings ==
    \A r \in Slots :
      LET c == call[r] IN
      (/\ Ended(r)
       /\ c.exc = "Failed to add document to vector database"
       /\ c.i >= 1) =>
        /\ \A x \in ChunksOf(c.doc) : x.id[1] = c.run => x.embedding_id = NULL
        /\ vindex \subseteq c.stage_vindex

(***************************************************************************)
(* Concurrent callers: process, reprocess and bulk_process called by two   *)
(* callers at once on the same document, each with its own database        *)
(* session, as two server processes or two threads would.  start.py does   *)
(* not serve requests so: see LoopSpec below.                              *)
(***************************************************************************)
\* the callers
ConcSlots == {1, 2}
\* the document the requests target, and its owner
ConcDocs == {"d3"}
ConcUsers == {"u2"}

ConcInit ==
    /\ files = [d \in Docs |-> CASE d = "d1" -> FileLong
                                  [] d = "d2" -> FileBlank
                                  [] OTHER -> FileShort]
    /\ status = [d \in Docs |-> "pending"]
    /\ chunks = {}
    /\ jobs = <<>>
    /\ vindex = {}
    /\ runs = 0
    /\ calls = 0
    /\ nfaults = 0
    /\ call = [r \in ConcSlots |-> IdleCall]
    /\ client = FirstCollection
    /\ handles = FirstHandles
    /\ sessions = {}
    /\ messages = <<>>
    /\ ask = IdleAsk
    /\ chk = IdleChunker

\* calls that one behaviour of the callers may contain
MaxRequests == 2

\* documents.py:117-145, 148-176 and 207-223: a caller that is free makes
\* its call whatever the other is doing; no lock is taken and no status is
\* tested
ConcProcess(r, d, m) == calls < MaxRequests /\ ProcessCall(r, d, m)
ConcReprocess(r, d, m) == calls < MaxRequests /\ ReprocessCall(r, d, m)
ConcBulk(r, u, m) == calls < MaxRequests /\ BulkCall(r, u, m)

ConcStep(r) ==
    \/ \E d \in ConcDocs, m \in Methods : ConcProcess(r, d, m)
    \/ \E d \in ConcDocs : ConcReprocess(r, d, "sliding_window")
    \/ \E u \in ConcUsers : ConcBulk(r, u, "sliding_window")
    \/ PipelineBegin(r)
    \/ PdfCreateJob(r)
    \/ PdfJobRunning(r)
    \/ PdfMarkExtracting(r)
    \/ PdfExtract(r)
    \/ PdfFail(r)
    \/ PdfComplete(r)
    \/ GetTextStatus(r) \/ GetTextRead(r) \/ GetText(r)
    \/ ChunkCreateJob(r)
    \/ ChunkCommit(r)
    \/ ChunkExcept(r)
    \/ OrchExcept(r)
    \/ AfterChunk(r)
    \/ EmbCreateJob(r)
    \/ EmbLoadChunks(r)
    \/ EmbBatch(r)
    \/ EmbStore(r)
    \/ EmbStoreCommit(r)
    \/ EmbComplete(r)
    \/ PipelineComplete(r)
    \/ ReprocessGet(r)
    \/ ReprocessDelete(r)
    \/ ReprocessReset(r)
    \/ EmbFail(r)
    \/ BulkLoop(r)
    \/ BulkAccumulate(r)

ConcNext == \E r \in ConcSlots : ConcStep(r)

ConcSpec == ConcInit /\ [][ConcNext]_vars

(***************************************************************************)
(* Requests to the endpoints of documents.py, as start.py serves them: one *)
(* uvicorn process (start.py:88-92) whose event loop runs the handlers.    *)
(* process_document, reprocess_document and process_all_documents are      *)
(* async functions that never await (documents.py:117-176, 207-223), so a  *)
(* handler that has started runs to its end before the loop starts the     *)
(* next one; the requests that arrive meanwhile wait.                      *)
(***************************************************************************)
\* the requests the server holds: being served, or waiting
LoopSlots == {1, 2}
\* the requests a client sends
Requests == {"process", "reprocess", "bulk"}

LoopInit ==
    /\ files = [d \in Docs |-> CASE d = "d1" -> FileLong
                                  [] d = "d2" -> FileBlank
                                  [] OTHER -> FileShort]
    /\ status = [d \in Docs |-> "pending"]
    /\ chunks = {}
    /\ jobs = <<>>
    /\ vindex = {}
    /\ runs = 0
    /\ calls = 0
    /\ nfaults = 0
    /\ call = [r \in LoopSlots |-> IdleCall]
    /\ client = FirstCollection
    /\ handles = FirstHandles
    /\ sessions = {}
    /\ messages = <<>>
    /\ ask = IdleAsk
    /\ chk = IdleChunker

\* requests that one behaviour of the server may contain
MaxArrivals == 3

\* the request of slot r has arrived and its handler has not been started
Queued(r) == call[r].pc = "queued"

\* the handler, or the call, of slot r has been started and has not ended
Serving(r) == ~Idle(call[r]) /\ ~Queued(r)

\* the event loop runs no handler
LoopFree == \A q \in DOMAIN call : ~Serving(q)

\* a client sends a request on document d, at any moment
Arrive(r, op, d) ==
    /\ Idle(call[r])
    /\ calls < MaxArrivals
    /\ calls' = calls + 1
    /\ call' = [call EXCEPT ![r] =
                  [IdleCall EXCEPT !.op = op, !.pc = "queued", !.doc = d,
                                   !.user = user_id(d)]]
    /\ UNCHANGED <<files, status, chunks, jobs, vindex, runs, nfaults>>
    /\ UNCHANGED <<chat_vars, handle_vars>>

\* documents.py:117-145, 148-176 and 207-223: the loop starts the handler
\* of a waiting request when no handler runs; the handlers take no lock and
\* test no status, and pass no chunking method
LoopProcess(r) ==
    /\ Queued(r) /\ call[r].op = "process"
    /\ LoopFree
    /\ ProcessStart(r, call[r].doc, "sliding_window")
    /\ UNCHANGED calls
LoopReprocess(r) ==
    /\ Queued(r) /\ call[r].op = "reprocess"
    /\ LoopFree
    /\ ReprocessStart(r, call[r].doc, "sliding_window")
    /\ UNCHANGED calls
LoopBulk(r) ==
    /\ Queued(r) /\ call[r].op = "bulk"
    /\ LoopFree
    /\ BulkStart(r, call[r].user, "sliding_window")
    /\ UNCHANGED calls

LoopStep(r) ==
    \/ \E op \in Requests, d \in ConcDocs : Arrive(r, op, d)
    \/ LoopProcess(r)
    \/ LoopReprocess(r)
    \/ LoopBulk(r)
    \/ PipelineBegin(r)
    \/ PdfCreateJob(r)
    \/ PdfJobRunning(r)
    \/ PdfMarkExtracting(r)
    \/ PdfExtract(r)
    \/ PdfFail(r)
    \/ PdfComplete(r)
    \/ GetTextStatus(r) \/ GetTextRead(r) \/ GetText(r)
    \/ ChunkCreateJob(r)
    \/ ChunkCommit(r)
    \/ ChunkExcept(r)
    \/ OrchExcept(r)
    \/ AfterChunk(r)
    \/ EmbCreateJob(r)
    \/ EmbLoadChunks(r)
    \/ EmbBatch(r)
    \/ EmbStore(r)
    \/ EmbStoreCommit(r)
    \/ EmbComplete(r)
    \/ PipelineComplete(r)
    \/ ReprocessGet(r)
    \/ ReprocessDelete(r)
    \/ ReprocessReset(r)
    \/ EmbFail(r)
    \/ BulkLoop(r)
    \/ BulkAccumulate(r)

LoopNext == \E r \in LoopSlots : LoopStep(r)

LoopSpec == LoopInit /\ [][LoopNext]_vars

\* a pipeline run is mutating the rows of its document in slot r: it has
\* committed "extracting" and has not ended
RunActive(r) ==
    /\ Serving(r)
    /\ call[r].pc \notin {"cleanup_get", "cleanup_delete", "reset", "begin",
                          "proc_done", "bulk_loop"}

\* the jobs the store holds as running
RunningJobs(d) ==
    {k \in 1..Len(jobs) : jobs[k].document_id = d /\ jobs[k].status = "running"}

\* the exclusion of runs: at most one pipeline run is active at a time, and
\* while it is, no other handler or call is started or running
RunsSerialised ==
    \A r1, r2 \in DOMAIN call :
      (r1 # r2 /\ RunActive(r1)) => ~Serving(r2)

\* a request on the document of an active run has arrived and waits
RequestDeferred ==
    \E r1, r2 \in DOMAIN call :
      /\ r1 # r2 /\ RunActive(r1) /\ Queued(r2)
      /\ call[r2].doc = call[r1].doc

\* C22: under any interleaving of process, reprocess and bulk_process
\* requests on the same document, its rows are mutated by one pipeline run
\* at a time: at no moment does the store hold two running jobs of the
\* document, and a request that arrives while a run is active on the
\* document is rejected or waits, and is not started.
C22_OneRunPerDocument ==
    /\ \A d \in Docs : Cardinality(RunningJobs(d)) <= 1
    /\ \A r1, r2 \in DOMAIN call :
         (r1 # r2 /\ RunActive(r1) /\ call[r2].doc = call[r1].doc) =>
           ~Serving(r2)

(***************************************************************************)
(* Deleting documents (documents.py:65-88), with the pipeline requests.    *)
(***************************************************************************)
\* the processing_status of a document whose row has been deleted, and of
\* one that has not been uploaded yet
Deleted == "deleted"
NotUploaded == "not uploaded"

\* the query of the endpoints finds the document (documents.py:72-81)
Exists(d) == status[d] \notin {Deleted, NotUploaded}

\* the files a user uploads
UploadFiles == {FileBlank, FileShort}

\* d2 has not been uploaded yet
DelInit ==
    /\ files = [d \in Docs |-> CASE d = "d1" -> FileLong
                                  [] d = "d2" -> NoFile
                                  [] OTHER -> FileShort]
    /\ status = [d \in Docs |-> IF d = "d2" THEN NotUploaded ELSE "pending"]
    /\ chunks = {}
    /\ jobs = <<>>
    /\ vindex = {}
    /\ runs = 0
    /\ calls = 0
    /\ nfaults = 0
    /\ call = [r \in Slots |-> IdleCall]
    /\ client = FirstCollection
    /\ handles = FirstHandles
    /\ sessions = {}
    /\ messages = <<>>
    /\ ask = IdleAsk
    /\ chk = IdleChunker

\* upload_document, file_service.py:113-125 and 55-77: the file is valid
\* and is saved under a fresh name; when the save fails nothing is left and
\* the request fails
UploadDocument(r, d, f) ==
    /\ Idle(call[r])
    /\ calls < MaxCalls
    /\ status[d] = NotUploaded
    /\ calls' = calls + 1
    /\ \E ok \in Outcomes :
         /\ Count1(ok)
         /\ files' = IF ok THEN [files EXCEPT ![d] = f] ELSE files
         /\ call' = [call EXCEPT ![r] =
                       [IdleCall EXCEPT !.op = "upload", !.doc = d,
                                        !.user = user_id(d),
                                        !.pc = IF ok THEN "upload_record" ELSE "idle",
                                        !.exc = IF ok THEN "" ELSE "HTTPException",
                                        !.faults = ~ok]]
    /\ UNCHANGED <<status, chunks, jobs, vindex, runs>>
    /\ UNCHANGED <<chat_vars, handle_vars>>

\* file_service.py:87-111 and 127-130: the document row is committed with
\* upload_status "completed" and processing_status "pending", and
\* refreshed; when the commit fails, or the refresh after it, the handler
\* cleans up
UploadRecord(r) ==
    LET c == call[r] IN
    /\ c.pc = "upload_record"
    /\ \E o \in DbOutcomes :
         /\ CountDb(o)
         /\ status' = IF o = "commit failed" THEN status
                      ELSE [status EXCEPT ![c.doc] = "pending"]
         /\ call' = [call EXCEPT ![r] =
                       [c EXCEPT !.pc = IF o = "ok" THEN "idle" ELSE "upload_cleanup",
                                 !.needs_rollback = (o = "commit failed"),
                                 !.exc = IF o = "ok" THEN "" ELSE "SQLAlchemyError",
                                 !.faults = (o # "ok")]]
    /\ UNCHANGED <<files, chunks, jobs, vindex, runs, calls>>
    /\ UNCHANGED <<chat_vars, handle_vars>>

\* file_service.py:132-136 and 79-85: the saved file is unlinked, a failure
\* of the file system being swallowed, and the exception of the commit is
\* raised again
UploadCleanup(r) ==
    LET c == call[r] IN
    /\ c.pc = "upload_cleanup"
    /\ \E ok \in Outcomes :
         /\ Count1(ok)
         /\ files' = IF ok THEN [files EXCEPT ![c.doc] = NoFile] ELSE files
    /\ call' = [call EXCEPT ![r] = [c EXCEPT !.pc = "idle"]]
    /\ UNCHANGED <<status, chunks, jobs, vindex, runs, calls>>
    /\ UNCHANGED <<chat_vars, handle_vars>>

\* the rows of table rows that do not belong to document d
RECURSIVE WithoutDocument(_, _)
WithoutDocument(rows, d) ==
    IF rows = <<>> THEN <<>>
    ELSE (IF Head(rows).document_id = d THEN <<>> ELSE <<Head(rows)>>)
           \o WithoutDocument(Tail(rows), d)

\* delete_document, documents.py:72-84: the document is found and its file
\* is unlinked, a failure of the file system being swallowed
\* (file_service.py:79-85)
DeleteDocument(r, d) ==
    /\ Idle(call[r])
    /\ calls < MaxCalls
    /\ Exists(d)
    /\ calls' = calls + 1
    /\ \E ok \in Outcomes :
         /\ Count1(ok)
         /\ files' = IF ok THEN [files EXCEPT ![d] = NoFile] ELSE files
    /\ call' = [call EXCEPT ![r] = [IdleCall EXCEPT !.op = "delete", !.doc = d,
                                                    !.user = user_id(d),
                                                    !.pc = "delete_row"]]
    /\ UNCHANGED <<status, chunks, jobs, vindex, runs>>
    /\ UNCHANGED <<chat_vars, handle_vars>>

\* documents.py:86-88: the row is deleted and the delete cascades to the
\* chunks and the jobs; the vector index is not touched; when the commit
\* fails the rows stay and the request fails
DeleteRow(r) ==
    LET c == call[r] IN
    /\ c.pc = "delete_row"
    /\ \E ok \in Outcomes :
         /\ Count1(ok)
         /\ IF ok
            THEN /\ status' = [status EXCEPT ![c.doc] = Deleted]
                 /\ chunks' = {x \in chunks : x.document_id # c.doc}
                 /\ jobs' = WithoutDocument(jobs, c.doc)
            ELSE UNCHANGED <<status, chunks, jobs>>
         /\ call' = [call EXCEPT ![r] =
                       [c EXCEPT !.pc = "idle", !.needs_rollback = ~ok,
                                 !.exc = IF ok THEN "" ELSE "SQLAlchemyError",
                                 !.faults = ~ok]]
    /\ UNCHANGED <<files, vindex, runs, calls>>
    /\ UNCHANGED <<chat_vars, handle_vars>>

\* the endpoints answer 404 for a document that does not exist
\* (documents.py:124-133 and 155-164)
DelProcess(r, d, m) == Exists(d) /\ ProcessCall(r, d, m)
DelReprocess(r, d, m) == Exists(d) /\ ReprocessCall(r, d, m)

DelStep(r) ==
    \/ \E d \in Docs : DelProcess(r, d, "sliding_window")
    \/ \E d \in Docs : DelReprocess(r, d, "sliding_window")
    \/ \E u \in Users : BulkCall(r, u, "sliding_window")
    \/ \E d \in Docs, f \in UploadFiles : UploadDocument(r, d, f)
    \/ UploadRecord(r)
    \/ UploadCleanup(r)
    \/ \E d \in Docs : DeleteDocument(r, d)
    \/ DeleteRow(r)
    \/ PipelineBegin(r)
    \/ PdfCreateJob(r)
    \/ PdfJobRunning(r)
    \/ PdfMarkExtracting(r)
    \/ PdfExtract(r)
    \/ PdfFail(r)
    \/ PdfComplete(r)
    \/ GetTextStatus(r) \/ GetTextRead(r) \/ GetText(r)
    \/ ChunkCreateJob(r)
    \/ ChunkCommit(r)
    \/ ChunkExcept(r)
    \/ OrchExcept(r)
    \/ AfterChunk(r)
    \/ EmbCreateJob(r)
    \/ EmbLoadChunks(r)
    \/ EmbBatch(r)
    \/ EmbStore(r)
    \/ EmbStoreCommit(r)
    \/ EmbComplete(r)
    \/ PipelineComplete(r)
    \/ ReprocessGet(r)
    \/ ReprocessDelete(r)
    \/ ReprocessReset(r)
    \/ EmbFail(r)
    \/ BulkLoop(r)
    \/ BulkAccumulate(r)

DelNext == \E r \in Slots : DelStep(r)

DelSpec == DelInit /\ [][DelNext]_vars

(***************************************************************************)
(* The constructor of VectorService and the methods that write the         *)
(* collection and that no endpoint and no service calls: delete_document,  *)
(* update_chunk_metadata and reset_collection.  They are steps of a direct *)
(* caller, on the VectorService of any holder, and of IndexSpec only.      *)
(***************************************************************************)
\* the chunk ids a caller passes: of chunks of the first runs, and one of
\* no chunk
ChunkIds == {<<1, 1>>, <<1, 2>>, <<2, 1>>, <<0, 1>>}

\* the metadata a caller passes to update_chunk_metadata: one key and its
\* value
MetadataUpdates ==
    {<<"user_id", u>> : u \in Users} \cup {<<"document_id", d>> : d \in Docs}

\* a direct call on the VectorService of holder h
IndexCall(r, h) ==
    /\ Idle(call[r])
    /\ calls < MaxCalls
    /\ calls' = calls + 1
    /\ UNCHANGED <<files, status, chunks, jobs, runs>>
    /\ UNCHANGED chat_vars

\* the call has returned
IndexReturn(r, h) ==
    call' = [call EXCEPT ![r] = [IdleCall EXCEPT !.op = "index", !.holder = h]]

\* VectorService.__init__, vector_service.py:11-24: a VectorService is
\* constructed for holder h; it refers to the collection that exists, which
\* it creates when there is none; when the constructor raises the holder
\* keeps the object it had
VectorInit(r, h) ==
    /\ IndexCall(r, h)
    /\ \E ok \in Outcomes :
         /\ Count1(ok)
         /\ IF ok
            THEN /\ client' = get_or_create_collection(client)
                 /\ handles' = [handles EXCEPT ![h] = client'.id]
            ELSE UNCHANGED handle_vars
    /\ IndexReturn(r, h)
    /\ UNCHANGED vindex

\* VectorService.delete_document, vector_service.py:103-110: the entry of
\* that id is deleted; a failure is swallowed
VectorDelete(r, h, id) ==
    /\ handles[h] # 0
    /\ IndexCall(r, h)
    /\ \E ok \in IndexOutcomes(h) :
         /\ CountIndex(h, ok)
         /\ vindex' = delete_ids(vindex, {id}, ok)
    /\ IndexReturn(r, h)
    /\ UNCHANGED handle_vars

\* VectorService.update_chunk_metadata, vector_service.py:129-142: the
\* entry is read and the metadata updated in a copy; an id that is not in
\* the collection, or a failure, ends the call and changes nothing
VectorUpdateMetadata(r, h, id, md) ==
    /\ handles[h] # 0
    /\ IndexCall(r, h)
    /\ \E ok \in IndexOutcomes(h) :
         /\ CountIndex(h, ok)
         /\ IF ok /\ \E e \in vindex : e.chunk_id = id
            THEN call' = [call EXCEPT ![r] =
                            [IdleCall EXCEPT
                               !.op = "index", !.pc = "update_delete", !.holder = h,
                               !.existing = {[e EXCEPT ![md[1]] = md[2]] :
                                               e \in {x \in vindex : x.chunk_id = id}}]]
            ELSE IndexReturn(r, h)
    /\ UNCHANGED vindex
    /\ UNCHANGED handle_vars

\* vector_service.py:145: the entry is deleted; a failure ends the call
VectorUpdateDelete(r) ==
    LET c == call[r] IN
    /\ c.pc = "update_delete"
    /\ \E ok \in IndexOutcomes(c.holder) :
         /\ CountIndex(c.holder, ok)
         /\ vindex' = delete_ids(vindex, {e.chunk_id : e \in c.existing}, ok)
         /\ call' = [call EXCEPT ![r] =
                       [c EXCEPT !.pc = IF ok THEN "update_add" ELSE "idle"]]
    /\ UNCHANGED <<files, status, chunks, jobs, runs, calls>>
    /\ UNCHANGED <<chat_vars, handle_vars>>

\* vector_service.py:146-151: the entry is added again with the updated
\* metadata; a failure is swallowed and leaves the entry deleted
VectorUpdateAdd(r) ==
    LET c == call[r] IN
    /\ c.pc = "update_add"
    /\ \E ok \in IndexOutcomes(c.holder) :
         /\ CountIndex(c.holder, ok)
         /\ vindex' = IF ok THEN vindex \cup c.existing ELSE vindex
    /\ call' = [call EXCEPT ![r] = [c EXCEPT !.pc = "idle"]]
    /\ UNCHANGED <<files, status, chunks, jobs, runs, calls>>
    /\ UNCHANGED <<chat_vars, handle_vars>>

\* VectorService.reset_collection, vector_service.py:212-215: the client
\* deletes the collection of that name, with its entries, whatever
\* self.collection refers to; when there is none, or on a failure, the
\* exception is swallowed and the call ends
VectorReset(r, h) ==
    /\ handles[h] # 0
    /\ IndexCall(r, h)
    /\ \E ok \in (IF client.exists THEN Outcomes ELSE {FALSE}) :
         /\ nfaults' = IF ok \/ ~client.exists THEN nfaults ELSE nfaults + 1
         /\ IF ok
            THEN /\ client' = [client EXCEPT !.exists = FALSE]
                 /\ vindex' = {}
                 /\ call' = [call EXCEPT ![r] =
                               [IdleCall EXCEPT !.op = "index", !.pc = "reset_create",
                                                !.holder = h]]
            ELSE /\ UNCHANGED <<client, vindex>>
                 /\ IndexReturn(r, h)
    /\ UNCHANGED handles

\* vector_service.py:216-219: the collection is created again and
\* self.collection of this object, and of no other, refers to it; a failure
\* is swallowed and leaves no collection
VectorResetCreate(r) ==
    LET c == call[r] IN
    /\ c.pc = "reset_create"
    /\ \E ok \in Outcomes :
         /\ Count1(ok)
         /\ IF ok
            THEN /\ client' = get_or_create_collection(client)
                 /\ handles' = [handles EXCEPT ![c.holder] = client'.id]
            ELSE UNCHANGED handle_vars
    /\ call' = [call EXCEPT ![r] = [c EXCEPT !.pc = "idle"]]
    /\ UNCHANGED <<files, status, chunks, jobs, vindex, runs, calls>>
    /\ UNCHANGED chat_vars

IndexNext ==
    \E r \in Slots :
      \/ DelStep(r)
      \/ \E h \in Holders : VectorInit(r, h)
      \/ \E h \in Holders, id \in ChunkIds : VectorDelete(r, h, id)
      \/ \E h \in Holders, id \in ChunkIds, md \in MetadataUpdates :
           VectorUpdateMetadata(r, h, id, md)
      \/ VectorUpdateDelete(r)
      \/ VectorUpdateAdd(r)
      \/ \E h \in Holders : VectorReset(r, h)
      \/ VectorResetCreate(r)

IndexSpec == DelInit /\ [][IndexNext]_vars

\* C30: after any sequence of process, reprocess, bulk_process and delete
\* operations the store and the vector index agree: every entry of the
\* index is keyed by the id of an existing chunk whose embedding_id is that
\* id and whose document is the entry's document_id, and every chunk with an
\* embedding_id has such an entry.
C30_StoreAndIndexAgree ==
    (\A r \in Slots : Idle(call[r])) =>
      /\ \A e \in vindex :
           \E x \in chunks : /\ x.id = e.chunk_id
                             /\ x.embedding_id = e.chunk_id
                             /\ x.document_id = e.document_id
      /\ \A x \in chunks :
           x.embedding_id # NULL =>
             \E e \in vindex : /\ e.chunk_id = x.embedding_id
                               /\ e.chunk_id = x.id
                               /\ e.document_id = x.document_id
====
